---- MODULE Spec2Model ----
(***************************************************************************)
(* Verification model of the slot-filling chat handler of the virtual tour *)
(* guide (src/irwa-tour/app.py) together with the pure text functions it   *)
(* calls: the input screen and sanitizer (src/irwa-tour/agents/            *)
(* safety_agent.py), the keyword router and duration parser               *)
(* (src/old_system/dialogue_agent.py) and the place lookup                 *)
(* (src/old_system/ir_agent.py).  Text is modelled as TLA+ strings, i.e.   *)
(* sequences of characters, and every regular expression is written out   *)
(* as the search the regex engine performs.                                *)
(***************************************************************************)
EXTENDS Integers, Sequences, FiniteSets, TLC

(***************************************************************************)
(* Python values and string primitives                                     *)
(***************************************************************************)

\* Python's None.  Every stored text is sanitized (no angle brackets), so the
\* marker cannot collide with a value.
None == "<None>"

LOWER == "abcdefghijklmnopqrstuvwxyz"
UPPER == "ABCDEFGHIJKLMNOPQRSTUVWXYZ"
DIGITS == "0123456789"

Max(a, b) == IF a >= b THEN a ELSE b
Min(a, b) == IF a <= b THEN a ELSE b
MinOf(S) == CHOOSE x \in S : \A y \in S : x <= y
MaxOf(S) == CHOOSE x \in S : \A y \in S : x >= y

\* s[i] with 0-based index i, "" when out of range (end of text)
At(s, i) == IF i >= 0 /\ i < Len(s) THEN SubSeq(s, i + 1, i + 1) ELSE ""

\* s[i:j] (0-based, j exclusive)
Slice(s, i, j) == SubSeq(s, i + 1, j)

\* the characters of an alphabet, and the 1-based position of each
Chars(a) == {SubSeq(a, k, k) : k \in 1..Len(a)}
Positions(a) == [c \in Chars(a) |-> CHOOSE k \in 1..Len(a) : SubSeq(a, k, k) = c]
LowerSet == Chars(LOWER)
UpperSet == Chars(UPPER)
DigitSet == Chars(DIGITS)
LowerPos == Positions(LOWER)
UpperPos == Positions(UPPER)
DigitPos == Positions(DIGITS)
WHITESPACE == {" ", "\t", "\n", "\r", "\f"}

IsLower(c) == c \in LowerSet
IsUpper(c) == c \in UpperSet
IsLetter(c) == c \in LowerSet \/ c \in UpperSet
IsDigit(c) == c \in DigitSet
IsSpace(c) == c \in WHITESPACE
\* regex \w
IsWord(c) == IsLetter(c) \/ IsDigit(c) \/ c = "_"

ToLowerChar == [c \in UpperSet |-> SubSeq(LOWER, UpperPos[c], UpperPos[c])]
ToUpperChar == [c \in LowerSet |-> SubSeq(UPPER, LowerPos[c], LowerPos[c])]
LowerChar(c) == IF c \in UpperSet THEN ToLowerChar[c] ELSE c
UpperChar(c) == IF c \in LowerSet THEN ToUpperChar[c] ELSE c

RECURSIVE MapLower(_)
MapLower(s) ==
    IF Len(s) <= 1 THEN LowerChar(s)
    ELSE MapLower(SubSeq(s, 1, Len(s) \div 2)) \o MapLower(SubSeq(s, Len(s) \div 2 + 1, Len(s)))

\* str.lower()
Lower(s) == MapLower(s)

\* `sub in s`
StartsAt(s, sub, i) == i + Len(sub) <= Len(s) /\ Slice(s, i, i + Len(sub)) = sub
Contains(s, sub) == \E i \in 0..(Len(s) - Len(sub)) : StartsAt(s, sub, i)
\* s.find(sub), for a sub that occurs
RECURSIVE FindFrom(_, _, _)
FindFrom(s, sub, i) == IF StartsAt(s, sub, i) THEN i ELSE FindFrom(s, sub, i + 1)
Find(s, sub) == FindFrom(s, sub, 0)

\* str.strip(chars) for the predicate InSet(c)
RECURSIVE LStripSet(_, _)
LStripSet(s, cs) == IF s # "" /\ Head(s) \in cs THEN LStripSet(Tail(s), cs) ELSE s
RECURSIVE RStripSet(_, _)
RStripSet(s, cs) ==
    IF s # "" /\ At(s, Len(s) - 1) \in cs
    THEN RStripSet(SubSeq(s, 1, Len(s) - 1), cs) ELSE s
StripSet(s, cs) == RStripSet(LStripSet(s, cs), cs)

\* str.strip()
Strip(s) == StripSet(s, WHITESPACE)
\* str.strip(" ?!.")
PUNCT == {" ", "?", "!", "."}
StripPunct(s) == StripSet(s, PUNCT)

\* str.title(): a letter after a non-letter is upper-cased, any other lowered
RECURSIVE TitleFrom(_, _)
TitleFrom(s, prevLetter) ==
    IF s = "" THEN ""
    ELSE LET c == Head(s)
         IN (IF prevLetter THEN LowerChar(c) ELSE UpperChar(c))
              \o TitleFrom(Tail(s), IsLetter(c))
Title(s) == TitleFrom(s, FALSE)

\* index just past the maximal run of characters satisfying a class, from i
RECURSIVE DigitsEnd(_, _)
DigitsEnd(s, i) == IF IsDigit(At(s, i)) THEN DigitsEnd(s, i + 1) ELSE i
RECURSIVE SpaceEnd(_, _)
SpaceEnd(s, i) == IF IsSpace(At(s, i)) THEN SpaceEnd(s, i + 1) ELSE i

\* int(s) for a string of decimal digits
RECURSIVE ToInt(_)
ToInt(s) ==
    IF s = "" THEN 0
    ELSE ToInt(SubSeq(s, 1, Len(s) - 1)) * 10 + (DigitPos[At(s, Len(s) - 1)] - 1)

RECURSIVE Pow10(_)
Pow10(n) == IF n = 0 THEN 1 ELSE 10 * Pow10(n - 1)

(***************************************************************************)
(* dict helpers: a dict is a function whose DOMAIN is its set of keys      *)
(***************************************************************************)
EmptyDict == <<>>
Get(d, k, default) == IF k \in DOMAIN d THEN d[k] ELSE default
Put(d, k, v) == [x \in (DOMAIN d) \cup {k} |-> IF x = k THEN v ELSE d[x]]
SetDefault(d, k, v) == IF k \in DOMAIN d THEN d ELSE Put(d, k, v)
Pop(d, k) == [x \in (DOMAIN d) \ {k} |-> d[x]]

(***************************************************************************)
(* src/old_system/dialogue_agent.py                                        *)
(***************************************************************************)

\* Optional[int]: Python None where an int is expected
NoneInt == -1

PLAN_TRIGGERS == <<"plan", "route", "itinerary", "tour", "make a plan", "schedule",
                   "visit plan", "trip plan", "route plan">>
FACTS_TRIGGERS == <<"tell me about", "facts", "history", "info about",
                    "information about", "what is", "where is", "ticket",
                    "opening", "close time">>
CHITCHAT_TRIGGERS == <<"hi", "hello", "hey", "good morning", "good evening",
                       "good night", "how are you", "what's up", "whats up",
                       "good afternoon", "greetings">>
GREETING_SIMPLE == <<"hi", "hello", "hey", "greetings">>
GREETING_TIME == <<"good morning", "good afternoon", "good evening", "good night">>
HELP_TRIGGERS == <<"help", "how to use", "what can you do">>

\* any(k in t for k in triggers)
AnyIn(t, triggers) == \E n \in 1..Len(triggers) : Contains(t, triggers[n])

\* TIME_PAT, first alternative at position i:
\*   (\d+(?:\.\d+)?)\s*(?:hours?|hrs?|h)
\* Every unit starts with "h" and "h" alone is a unit, so the alternative
\* matches exactly when digits, an optional fraction and optional blanks are
\* followed by "h".  Giving back digits or the fraction never helps: the
\* character after a shorter run is a digit or ".", neither blank nor "h".
HoursEnd(t, i) ==
    LET d1 == DigitsEnd(t, i)
        f1 == DigitsEnd(t, d1 + 1)
    IN IF At(t, d1) = "." /\ f1 > d1 + 1 THEN f1 ELSE d1
HoursMatchAt(t, i) ==
    /\ IsDigit(At(t, i))
    /\ LowerChar(At(t, SpaceEnd(t, HoursEnd(t, i)))) = "h"

\* TIME_PAT, second alternative at position i:  (\d+)\s*(?:minutes?|mins?|m)
MinutesMatchAt(t, i) ==
    /\ IsDigit(At(t, i))
    /\ LowerChar(At(t, SpaceEnd(t, DigitsEnd(t, i)))) = "m"

TimeMatchAt(t, i) == HoursMatchAt(t, i) \/ MinutesMatchAt(t, i)

\* TIME_PAT.search(t): the leftmost position with a match, Len(t) when none
RECURSIVE TimeSearchFrom(_, _)
TimeSearchFrom(t, i) ==
    IF i >= Len(t) THEN Len(t)
    ELSE IF TimeMatchAt(t, i) THEN i
    ELSE TimeSearchFrom(t, i + 1)
TimeSearch(t) == TimeSearchFrom(t, 0)

\* int(round(float(g) * 60)) for g = digits or digits.digits; round() rounds
\* a half to the even neighbour
HoursToMinutes(g) ==
    LET dot == IF Contains(g, ".") THEN Find(g, ".") ELSE Len(g)
        ip == ToInt(Slice(g, 0, dot))
        fs == IF dot < Len(g) THEN Slice(g, dot + 1, Len(g)) ELSE ""
        den == Pow10(Len(fs))
        num == (ip * den + ToInt(fs)) * 60
        q == num \div den
        r == num % den
    IN IF 2 * r > den THEN q + 1
       ELSE IF 2 * r = den THEN q + (q % 2)
       ELSE q

\* parse_minutes without the floors max(30, ...) and max(15, ...)
parse_minutes_unfloored(text) ==
    LET t == Lower(text)
        i == TimeSearch(t)
    IN IF i = Len(t) THEN NoneInt
       ELSE IF HoursMatchAt(t, i)
            THEN HoursToMinutes(Slice(t, i, HoursEnd(t, i)))
       ELSE ToInt(Slice(t, i, DigitsEnd(t, i)))

parse_minutes(text) ==
    LET t == Lower(text)
        i == TimeSearch(t)
    IN IF i = Len(t) THEN NoneInt
       ELSE IF HoursMatchAt(t, i)
            THEN Max(30, HoursToMinutes(Slice(t, i, HoursEnd(t, i))))
       ELSE Max(15, ToInt(Slice(t, i, DigitsEnd(t, i))))

\* CITY_PAT at position i:
\*   (?:in|at|around|for)\s+([a-zA-Z][a-zA-Z\s\-']{1,40})\b     (re.I)
\* KeywordEnd is the index after the keyword, i when none starts here (no two
\* keywords start at the same place: "at" and "around" differ in the second
\* letter).
CITY_KEYWORDS == <<"in", "at", "around", "for">>
KeywordEnd(t, i) ==
    IF \E n \in 1..Len(CITY_KEYWORDS) : StartsAt(t, CITY_KEYWORDS[n], i)
    THEN i + Len(CITY_KEYWORDS[CHOOSE n \in 1..Len(CITY_KEYWORDS) :
                                  StartsAt(t, CITY_KEYWORDS[n], i)])
    ELSE i
IsCityChar(c) == IsLetter(c) \/ IsSpace(c) \/ c = "-" \/ c = "'"
\* regex \b at index e: exactly one of the neighbours is a word character
WordBoundary(t, e) == IsWord(At(t, e - 1)) # IsWord(At(t, e))
\* index just past the run of at most 40 group characters after the letter at g
RECURSIVE CityRunEnd(_, _, _)
CityRunEnd(t, e, n) ==
    IF n < 40 /\ IsCityChar(At(t, e)) THEN CityRunEnd(t, e + 1, n + 1) ELSE e
\* the end of the capture group: the run, given back until \b holds; g when
\* no end with at least one character after the letter is a boundary
RECURSIVE GiveBack(_, _, _)
GiveBack(t, g, e) ==
    IF e < g + 2 THEN g
    ELSE IF WordBoundary(t, e) THEN e
    ELSE GiveBack(t, g, e - 1)
CityGroupEnd(t, g) ==
    IF IsLetter(At(t, g)) THEN GiveBack(t, g, CityRunEnd(t, g + 1, 0)) ELSE g
\* start of the capture group of a match at i, -1 when CITY_PAT fails at i;
\* tl is t in lower case (re.I)
CityGroupStart(t, tl, i) ==
    LET k == KeywordEnd(tl, i)
        g == SpaceEnd(t, k)
    IN IF k > i /\ g > k /\ CityGroupEnd(t, g) > g THEN g ELSE -1
\* CITY_PAT.search(t): the leftmost position with a match, Len(t) when none
RECURSIVE CitySearchFrom(_, _, _)
CitySearchFrom(t, tl, i) ==
    IF i >= Len(t) THEN Len(t)
    ELSE IF CityGroupStart(t, tl, i) >= 0 THEN i
    ELSE CitySearchFrom(t, tl, i + 1)
CitySearch(t) == CitySearchFrom(t, Lower(t), 0)

\* [w for w in re.split(r"[^a-zA-Z]+", t) if w]
RECURSIVE LetterEnd(_, _)
LetterEnd(s, i) == IF IsLetter(At(s, i)) THEN LetterEnd(s, i + 1) ELSE i
RECURSIVE LetterWords(_)
LetterWords(t) ==
    IF t = "" THEN <<>>
    ELSE IF IsLetter(Head(t))
         THEN LET e == LetterEnd(t, 0)
              IN <<Slice(t, 0, e)>> \o LetterWords(Slice(t, e, Len(t)))
         ELSE LetterWords(Tail(t))

\* " ".join(words)
RECURSIVE JoinSpace(_)
JoinSpace(ws) ==
    IF Len(ws) = 0 THEN ""
    ELSE IF Len(ws) = 1 THEN ws[1]
    ELSE ws[1] \o " " \o JoinSpace(Tail(ws))

_extract_city(text) ==
    LET t == Strip(text)
        i == CitySearch(t)
        words == LetterWords(t)
    IN IF i < Len(t)
       THEN LET g == CityGroupStart(t, Lower(t), i)
            IN Title(StripPunct(Slice(t, g, CityGroupEnd(t, g))))
       ELSE IF Len(words) <= 3
            THEN (IF Len(words) > 0 THEN Title(JoinSpace(words)) ELSE None)
       ELSE None

\* len(t.split())
RECURSIVE NonSpaceEnd(_, _)
NonSpaceEnd(s, i) ==
    IF i < Len(s) /\ ~IsSpace(At(s, i)) THEN NonSpaceEnd(s, i + 1) ELSE i
RECURSIVE SplitCount(_)
SplitCount(t) ==
    IF t = "" THEN 0
    ELSE IF IsSpace(Head(t)) THEN SplitCount(Tail(t))
    ELSE 1 + SplitCount(Slice(t, NonSpaceEnd(t, 0), Len(t)))

GreetingKind(t) ==
    IF AnyIn(t, GREETING_TIME)
    THEN (IF Contains(t, "good morning") THEN "morning"
          ELSE IF Contains(t, "good afternoon") THEN "afternoon"
          ELSE IF Contains(t, "good evening") THEN "evening"
          ELSE IF Contains(t, "good night") THEN "night"
          ELSE "generic")
    ELSE IF AnyIn(t, GREETING_SIMPLE) THEN "simple"
    ELSE "generic"

\* text.lower().split("about", 1)[1]
AfterAbout(text) ==
    LET l == Lower(text) IN Slice(l, Find(l, "about") + 5, Len(l))

FactsPlace(text, t) ==
    LET place == IF Contains(t, "about") THEN AfterAbout(text) ELSE None
    IN StripPunct(IF place = None \/ place = "" THEN text ELSE place)

\* A payload is a record with every slot; a slot the dict lacks is None.
Payload(city, minutes, place, greeting) ==
    [city |-> city, minutes |-> minutes, place |-> place, greeting |-> greeting]
Routed(intent, payload) == [intent |-> intent, payload |-> payload]

route_intent(text) ==
    LET t == Strip(Lower(text))
    IN IF AnyIn(t, HELP_TRIGGERS)
       THEN Routed("help", Payload(None, NoneInt, None, None))
       ELSE IF AnyIn(t, PLAN_TRIGGERS)
       THEN Routed("itinerary",
                   Payload(_extract_city(text), parse_minutes(text), None, None))
       ELSE IF AnyIn(t, FACTS_TRIGGERS)
       THEN Routed("facts", Payload(None, NoneInt, FactsPlace(text, t), None))
       ELSE IF SplitCount(t) <= 2 /\ AnyIn(t, CHITCHAT_TRIGGERS)
       THEN Routed("chitchat", Payload(None, NoneInt, None, GreetingKind(t)))
       ELSE IF \E n \in 1..Len(CHITCHAT_TRIGGERS) : Strip(t) = CHITCHAT_TRIGGERS[n]
       THEN Routed("chitchat", Payload(None, NoneInt, None, "simple"))
       ELSE Routed("facts", Payload(None, NoneInt, StripPunct(text), None))

(***************************************************************************)
(* src/irwa-tour/agents/safety_agent.py                                    *)
(***************************************************************************)

BANNED_SUBSTRINGS ==
    {"kill", "harm", "bomb", "terror", "suicide", "murder", "die", "death",
     "fuck", "shit", "damn", "hell", "bitch", "asshole", "bastard", "crap",
     "hack", "ddos", "phish", "malware", "ransomware",
     "password dump", "credit card", "steal",
     "meth", "cocaine",
     "rm -rf", "drop table", "union select", "exec(", "system(", "xp_cmdshell",
     "<script", "</script"}

\* the categories that have a template of their own in VIOLATION_RESPONSES
VIOLATION_RESPONSES ==
    {"profanity", "kill", "harm", "bomb", "terror", "suicide", "murder", "die",
     "death", "fuck", "shit", "damn", "hell", "bitch", "asshole", "bastard", "crap"}

\* better_profanity's word list is not part of the repository; these entries
\* of it stand for the whole list.
CENSOR_WORDS == {"piss", "shit", "arse"}

\* the words of a text: maximal runs of \w characters
RECURSIVE WordEnd(_, _)
WordEnd(s, i) == IF IsWord(At(s, i)) THEN WordEnd(s, i + 1) ELSE i
RECURSIVE WordSet(_)
WordSet(t) ==
    IF t = "" THEN {}
    ELSE IF IsWord(Head(t))
         THEN LET e == WordEnd(t, 0)
              IN {Slice(t, 0, e)} \cup WordSet(Slice(t, e, Len(t)))
         ELSE WordSet(Tail(t))

\* profanity.contains_profanity(t)
contains_profanity(t) == WordSet(Lower(t)) \cap CENSOR_WORDS # {}

\* _contains_banned iterates a set, whose order is not fixed: every banned
\* substring the text holds can be the one returned.
_contains_banned(text) == {bad \in BANNED_SUBSTRINGS : Contains(Lower(text), bad)}

\* re.search(r"<\s*\/?\s*[a-z][a-z0-9\-]*\s*[^>]*>", t, re.I): a "<", blanks,
\* an optional "/", blanks, a letter, and a ">" anywhere after the letter
TagNameAt(t, i) ==
    LET a == SpaceEnd(t, i + 1)
        b == IF At(t, a) = "/" THEN SpaceEnd(t, a + 1) ELSE a
    IN IF At(t, i) = "<" /\ IsLetter(At(t, b)) THEN b ELSE -1
HasRawTag(t) ==
    \E i \in 0..(Len(t) - 1) :
        /\ TagNameAt(t, i) >= 0
        /\ \E k \in (TagNameAt(t, i) + 1)..(Len(t) - 1) : At(t, k) = ">"

Checked(ok, reason) == [ok |-> ok, reason |-> reason]

\* check_input(text): the set of results it can return
check_input(text) ==
    IF contains_profanity(text) THEN {Checked(FALSE, "profanity")}
    ELSE IF _contains_banned(text) # {}
    THEN {Checked(FALSE, bad) : bad \in _contains_banned(text)}
    ELSE IF (Contains(text, "<") \/ Contains(text, ">")) /\ HasRawTag(text)
    THEN {Checked(FALSE, "raw_html_tag")}
    ELSE {Checked(TRUE, "")}

\* re.sub(r"\s+", " ", clean)
RECURSIVE CollapseSpace(_)
CollapseSpace(s) ==
    IF s = "" THEN ""
    ELSE IF IsSpace(Head(s))
         THEN " " \o CollapseSpace(Slice(s, SpaceEnd(s, 0), Len(s)))
         ELSE Head(s) \o CollapseSpace(Tail(s))

RECURSIVE DropAngles(_)
DropAngles(s) ==
    IF s = "" THEN ""
    ELSE IF Head(s) \in {"<", ">"} THEN DropAngles(Tail(s))
    ELSE Head(s) \o DropAngles(Tail(s))

SANITIZE_LIMIT == 2000

sanitize(text) ==
    LET clean == Strip(CollapseSpace(DropAngles(text)))
    IN Slice(clean, 0, Min(Len(clean), SANITIZE_LIMIT))

\* get_violation_response: the template of the category, or the general one
get_violation_response(violation_type) ==
    IF violation_type \in VIOLATION_RESPONSES
    THEN "violation:" \o violation_type
    ELSE "violation:default"

\* check_output blocks only script tags
check_output(text) ==
    IF Contains(Lower(text), "<script") \/ Contains(Lower(text), "</script")
    THEN Checked(FALSE, "script")
    ELSE Checked(TRUE, "")

(***************************************************************************)
(* src/agents/safety_agent.py: the input screen with the long banned list, *)
(* the table of variants and the pattern, repetition and length rules      *)
(***************************************************************************)
sa_BANNED_SUBSTRINGS ==
    {"kill", "harm", "bomb", "terror", "suicide", "murder", "die", "death",
     "violence", "attack", "assault", "weapon", "gun", "knife", "fight",
     "destroy", "damage", "hurt", "injure", "wound", "bleed", "blood",
     "fuck", "shit", "damn", "hell", "bitch", "asshole", "bastard", "crap",
     "fucking", "shitty", "damned", "hellish", "bitchy", "piss", "dick",
     "cock", "pussy", "whore", "slut", "faggot", "nigger", "retard", "hack",
     "ddos", "phish", "malware", "ransomware", "virus", "trojan",
     "password dump", "credit card", "steal", "fraud", "scam", "exploit",
     "inject", "bypass", "crack", "brute force", "social engineering",
     "meth", "cocaine", "heroin", "marijuana", "weed", "drugs", "pills",
     "overdose", "addiction", "dealer", "smuggling", "rm -rf", "drop table",
     "union select", "exec(", "system(", "xp_cmdshell", "sql injection",
     "xss", "csrf", "buffer overflow", "privilege escalation", "<script",
     "</script", "javascript:", "onclick", "onload", "onerror", "iframe",
     "object", "embed", "sex", "porn", "nude", "naked", "breast", "penis",
     "vagina", "orgasm", "masturbat", "screw", "bang", "hooker",
     "prostitute", "prostitution", "escort", "brothel", "strip club",
     "adult entertainment", "sexual services", "sex worker",
     "massage parlor", "red light district", "racist", "sexist",
     "homophobic", "transphobic", "discriminat", "prejudice", "hate",
     "bigot", "supremacist", "nazi", "fascist", "terrorist", "self-harm",
     "cut", "hang", "poison", "depression", "anxiety", "panic", "trauma",
     "ptsd", "mental illness"}

\* the dict `variations` of _contains_banned, in the order of its keys
variations ==
    << <<"fuck", {"f*ck", "f**k", "f***", "fuk", "fuking", "fucking", "fucked", "fucker", "fucks"}>>,
       <<"shit", {"sh*t", "sh**", "sht", "shitting", "shitted", "shitter", "shits"}>>,
       <<"damn", {"d*mn", "d**n", "damned", "damning", "damns"}>>,
       <<"hell", {"h*ll", "h**l", "hellish", "hells"}>>,
       <<"bitch", {"b*tch", "b**ch", "bitchy", "bitches", "bitching"}>>,
       <<"asshole", {"a**hole", "a**h*le", "assh*le", "assholes"}>>,
       <<"bastard", {"b*stard", "b**tard", "basted", "bastards"}>>,
       <<"crap", {"cr*p", "cr**", "craps", "crapping"}>>,
       <<"piss", {"p*ss", "p**s", "pissing", "pissed", "pisses"}>>,
       <<"kill", {"k*ll", "k**l", "killing", "killed", "killer", "kills"}>>,
       <<"murder", {"m*rder", "m**der", "murdered", "murdering", "murderer", "murders"}>>,
       <<"suicide", {"s*cide", "s**cide", "suicidal", "suicides"}>>,
       <<"bomb", {"b*mb", "b**b", "bombing", "bombed", "bomber", "bombs"}>>,
       <<"terror", {"t*rror", "t**ror", "terrorist", "terrorism", "terrorists"}>>,
       <<"harm", {"h*rm", "h**m", "harming", "harmed", "harms"}>>,
       <<"violence", {"v*olence", "v**lence", "violent", "violently"}>>,
       <<"attack", {"att*ck", "att**k", "attacking", "attacked", "attacker", "attacks"}>>,
       <<"hack", {"h*ck", "h**k", "hacking", "hacked", "hacker", "hacks"}>>,
       <<"malware", {"m*lware", "m**ware", "malwares"}>>,
       <<"virus", {"v*rus", "v**us", "viruses"}>>,
       <<"phish", {"ph*sh", "ph**h", "phishing", "phished", "phisher"}>>,
       <<"steal", {"st*al", "st**l", "stealing", "stolen", "stealer", "steals"}>>,
       <<"drugs", {"dr*gs", "dr**s", "drugged", "drugging", "druggie", "druggies"}>>,
       <<"cocaine", {"c*caine", "c**aine", "cocaines"}>>,
       <<"meth", {"m*th", "m**h", "meths"}>>,
       <<"heroin", {"h*roin", "h**oin", "heroins"}>>,
       <<"marijuana", {"m*r*juana", "m**juana", "marijuanas"}>>,
       <<"weed", {"w*ed", "w**d", "weeds"}>>,
       <<"sex", {"s*x", "s**", "sexual", "sexually", "sexes", "sexing"}>>,
       <<"porn", {"p*rn", "p**n", "pornographic", "pornography", "porns"}>>,
       <<"prostitution", {"pr*stitution", "pr**stitution", "prostitutions"}>>,
       <<"prostitute", {"pr*stitute", "pr**stitute", "prostitutes", "prostituting"}>>,
       <<"escort", {"esc*rt", "esc**t", "escorts", "escorting"}>>,
       <<"brothel", {"br*thel", "br**thel", "brothels"}>>,
       <<"hooker", {"h*oker", "h**ker", "hookers"}>>,
       <<"racist", {"r*cist", "r**cist", "racism", "racially", "racists"}>>,
       <<"hate", {"h*te", "h**e", "hating", "hated", "hateful", "hates"}>>,
       <<"nazi", {"n*zi", "n**i", "nazis"}>>,
       <<"fascist", {"f*scist", "f**cist", "fascists", "fascism"}>>,
       <<"self-harm", {"s*lf-h*rm", "s**f-h**m", "self-harming", "self-harmed"}>>,
       <<"depression", {"d*pression", "d**pression", "depressed", "depressing", "depressions"}>> >>

\* the keys of `variations` of which t holds the key or one of its variants
VariationKeysIn(t) ==
    {k \in 1..Len(variations) :
        \/ Contains(t, variations[k][1])
        \/ \E variant \in variations[k][2] : Contains(t, variant)}

\* a banned-term lookup without the table of variants
sa_contains_banned_exact(text) ==
    LET exact == {bad \in sa_BANNED_SUBSTRINGS : Contains(Lower(text), bad)}
    IN IF exact # {} THEN exact ELSE {""}

\* _contains_banned(text): the values it can return.  The first loop iterates
\* a set, so each banned substring of the text can be the one returned; the
\* second goes through `variations` in order.
sa_contains_banned(text) ==
    LET t == Lower(text)
        exact == {bad \in sa_BANNED_SUBSTRINGS : Contains(t, bad)}
        keys == VariationKeysIn(t)
    IN IF exact # {} THEN exact
       ELSE IF keys # {} THEN {variations[MinOf(keys)][1]}
       ELSE {""}

\* re.search(word + r"\s*" + ch, t, re.I) for a literal word and a character
\* ch that is no blank
WordBlanksChar(t, word, ch) ==
    \E i \in 0..(Len(t) - Len(word)) :
        /\ StartsAt(Lower(t), word, i)
        /\ At(t, SpaceEnd(t, i + Len(word))) = ch

\* re.search(first + r"\s+" + second, t, re.I)
WordBlanksWord(t, first, second) ==
    \E i \in 0..(Len(t) - Len(first)) :
        /\ StartsAt(Lower(t), first, i)
        /\ IsSpace(At(t, i + Len(first)))
        /\ StartsAt(Lower(t), second, SpaceEnd(t, i + Len(first)))

\* re.search(r"on\w+\s*=", t, re.I)
EventHandlerIn(t) ==
    \E i \in 0..(Len(t) - 2) :
        /\ StartsAt(Lower(t), "on", i)
        /\ IsWord(At(t, i + 2))
        /\ At(t, SpaceEnd(t, WordEnd(t, i + 2))) = "="

\* any(re.search(pattern, t, re.I) for pattern in js_patterns)
js_patterns(t) ==
    \/ WordBlanksChar(t, "javascript", ":")
    \/ EventHandlerIn(t)
    \/ Contains(Lower(t), "<script")
    \/ Contains(Lower(t), "</script")
    \/ WordBlanksChar(t, "eval", "(")
    \/ Contains(Lower(t), "document.")
    \/ Contains(Lower(t), "window.")
    \/ WordBlanksChar(t, "alert", "(")
    \/ WordBlanksChar(t, "confirm", "(")
    \/ WordBlanksChar(t, "prompt", "(")

\* any(re.search(pattern, t, re.I) for pattern in sql_patterns)
sql_patterns(t) ==
    \/ WordBlanksWord(t, "union", "select")
    \/ WordBlanksWord(t, "drop", "table")
    \/ WordBlanksWord(t, "delete", "from")
    \/ WordBlanksWord(t, "insert", "into")
    \/ WordBlanksWord(t, "update", "set")
    \/ WordBlanksChar(t, "exec", "(")
    \/ Contains(Lower(t), "xp_cmdshell")
    \/ Contains(Lower(t), "sp_executesql")

\* t.split()
RECURSIVE Split(_)
Split(t) ==
    IF t = "" THEN <<>>
    ELSE IF IsSpace(Head(t)) THEN Split(Tail(t))
    ELSE <<Slice(t, 0, NonSpaceEnd(t, 0))>> \o Split(Slice(t, NonSpaceEnd(t, 0), Len(t)))

\* max(word_counts.values()), 0 for a text without words
max_repetition(t) ==
    LET words == Split(t)
        count(w) == Cardinality({k \in 1..Len(words) : words[k] = w})
    IN IF words = <<>> THEN 0
       ELSE MaxOf({count(words[k]) : k \in 1..Len(words)})

REPETITION_LIMIT == 5
LENGTH_LIMIT == 5000

\* the rules of check_input that text trips, the length rule apart
Trips(text) ==
    [banned |-> sa_contains_banned(text) \ {""},
     profanity |-> contains_profanity(text),
     raw_html_tag |-> (Contains(text, "<") \/ Contains(text, ">")) /\ HasRawTag(text),
     script |-> js_patterns(text),
     sql |-> sql_patterns(text),
     spam |-> max_repetition(text) > REPETITION_LIMIT]

\* check_input where the length rule comes before the repetition rule
FirstTrip_length_first(trips, length) ==
    IF trips.banned # {} THEN {Checked(FALSE, bad) : bad \in trips.banned}
    ELSE IF trips.profanity THEN {Checked(FALSE, "profanity")}
    ELSE IF trips.raw_html_tag THEN {Checked(FALSE, "raw_html_tag")}
    ELSE IF trips.script THEN {Checked(FALSE, "script")}
    ELSE IF trips.sql THEN {Checked(FALSE, "sql injection")}
    ELSE IF length > LENGTH_LIMIT THEN {Checked(FALSE, "excessive_length")}
    ELSE IF trips.spam THEN {Checked(FALSE, "spam")}
    ELSE {Checked(TRUE, "")}

\* check_input with a length rule that rejects a text of just the limit
FirstTrip_at_limit(trips, length) ==
    IF length >= LENGTH_LIMIT THEN {Checked(FALSE, "excessive_length")}
    ELSE FirstTrip_length_first(trips, length)

\* the rules of check_input in the order it tries them (lines 207-274): the
\* results it can return for a text of the given length that trips trips
FirstTrip(trips, length) ==
    IF trips.banned # {} THEN {Checked(FALSE, bad) : bad \in trips.banned}
    ELSE IF trips.profanity THEN {Checked(FALSE, "profanity")}
    ELSE IF trips.raw_html_tag THEN {Checked(FALSE, "raw_html_tag")}
    ELSE IF trips.script THEN {Checked(FALSE, "script")}
    ELSE IF trips.sql THEN {Checked(FALSE, "sql injection")}
    ELSE IF trips.spam THEN {Checked(FALSE, "spam")}
    ELSE IF length > LENGTH_LIMIT THEN {Checked(FALSE, "excessive_length")}
    ELSE {Checked(TRUE, "")}

\* check_input(text followed by `blanks` blanks): blanks at the end of a text
\* add to its length and to nothing else, as no banned term, variant or
\* pattern ends in a blank and split() drops them
sa_check_input(text, blanks) == FirstTrip(Trips(text), Len(text) + blanks)

(***************************************************************************)
(* src/agents/simple_safety.py                                             *)
(***************************************************************************)

CORE_BANNED_WORDS ==
    {"kill", "murder", "suicide", "bomb", "terror", "attack", "violence", "harm",
     "fuck", "shit", "damn", "bitch", "asshole", "bastard", "crap", "piss",
     "bullshit", "fucking",
     "nigger", "faggot", "retard", "whore", "slut",
     "self-harm", "cut", "hurt"}

\* the dict in the order it is written (and iterated)
MISSPELLINGS_AND_VARIATIONS ==
    << [word |-> "kill", variations |-> {"kil", "k1ll", "k!ll", "k1l", "k!l"}],
       [word |-> "murder", variations |-> {"murd3r", "murderer", "murd3rer"}],
       [word |-> "bomb", variations |-> {"b0mb", "b0m", "bom"}],
       [word |-> "attack", variations |-> {"attak", "atak", "attac"}],
       [word |-> "fuck", variations |-> {"fuk", "f*ck", "fck", "fukc", "phuck", "f0ck"}],
       [word |-> "shit", variations |-> {"sh*t", "sht", "sh1t", "sh!t"}],
       [word |-> "damn", variations |-> {"dam", "d*mn", "damn"}],
       [word |-> "bitch", variations |-> {"b*tch", "btch", "b1tch", "b!tch"}],
       [word |-> "asshole", variations |-> {"ashole", "ash*le", "assh0le", "assh*le"}],
       [word |-> "bastard", variations |-> {"bast*rd", "bastrd", "bastard"}],
       [word |-> "crap", variations |-> {"cr*p", "crp", "crapp"}],
       [word |-> "piss", variations |-> {"p*ss", "pss", "pissed"}],
       [word |-> "nigger", variations |-> {"n*gger", "ngger", "n1gger", "n!gger"}],
       [word |-> "faggot", variations |-> {"f*ggot", "fggot", "fagot", "fagg0t"}],
       [word |-> "retard", variations |-> {"ret*rd", "retrd", "retard"}],
       [word |-> "whore", variations |-> {"wh*re", "whre", "wh0re"}],
       [word |-> "slut", variations |-> {"sl*t", "slt", "sl1t"}],
       [word |-> "suicide", variations |-> {"sucide", "suc1de", "su!cide"}],
       [word |-> "hurt", variations |-> {"hrt", "h*rt", "hurts"}],
       [word |-> "cut", variations |-> {"c*t", "ct", "cuts"}] >>

\* the dict in the order it is written (and iterated)
SHORT_FORMS ==
    << <<"wtf", "what the fuck">>, <<"stfu", "shut the fuck up">>,
       <<"fml", "fuck my life">>, <<"smh", "shaking my head">>,
       <<"gtfo", "get the fuck out">>, <<"bs", "bullshit">>,
       <<"pos", "piece of shit">>, <<"sob", "son of a bitch">>,
       <<"omfg", "oh my fucking god">>, <<"af", "as fuck">>,
       <<"mf", "motherfucker">>, <<"btch", "bitch">>, <<"fck", "fuck">>,
       <<"sht", "shit">>, <<"dm", "damn">> >>

\* the keys of VIOLATION_RESPONSES of simple_safety.py, and the text of a key
simple_VIOLATION_RESPONSES ==
    {"kill", "murder", "fuck", "shit", "violence", "hate", "default"}
simple_Template(key) == "redirect:" \o key
\* VIOLATION_RESPONSES.get(key, VIOLATION_RESPONSES["default"])
simple_ResponseFor(key) ==
    IF key \in simple_VIOLATION_RESPONSES THEN simple_Template(key)
    ELSE simple_Template("default")

\* re.search(r'\b' + re.escape(w) + r'\b', t), for a w that starts and ends
\* with a word character
WordAt(t, w, i) ==
    StartsAt(t, w, i) /\ ~IsWord(At(t, i - 1)) /\ ~IsWord(At(t, i + Len(w)))
HasWord(t, w) == \E i \in 0..(Len(t) - Len(w)) : WordAt(t, w, i)

\* re.sub(r'\b' + re.escape(w) + r'\b', by, t), from position i on
RECURSIVE SubWordFrom(_, _, _, _)
SubWordFrom(t, w, by, i) ==
    IF i >= Len(t) THEN ""
    ELSE IF WordAt(t, w, i) THEN by \o SubWordFrom(t, w, by, i + Len(w))
    ELSE At(t, i) \o SubWordFrom(t, w, by, i + 1)

\* _expand_short_forms: the short forms are replaced one after the other
RECURSIVE ExpandFrom(_, _)
ExpandFrom(text, n) ==
    IF n > Len(SHORT_FORMS) THEN text
    ELSE ExpandFrom(SubWordFrom(text, SHORT_FORMS[n][1], SHORT_FORMS[n][2], 0), n + 1)
_expand_short_forms(text) == ExpandFrom(text, 1)

\* CORE_BANNED_WORDS is a set: a loop over it meets its words in an order
\* that is fixed within a run of the program and not fixed by the program.
\* ord lists, in that order, the words a loop can stop at; FirstIn is the
\* word of the set S the loop stops at.
FirstIn(ord, S) == ord[CHOOSE n \in 1..Len(ord) :
                          ord[n] \in S /\ \A k \in 1..(n - 1) : ord[k] \notin S]

\* the entry of MISSPELLINGS_AND_VARIATIONS the second loop stops at, or 0
VariationHit(expanded, entry) ==
    \/ HasWord(expanded, entry.word)
    \/ \E v \in entry.variations : HasWord(expanded, v)
RECURSIVE FirstVariation(_, _)
FirstVariation(expanded, n) ==
    IF n > Len(MISSPELLINGS_AND_VARIATIONS) THEN 0
    ELSE IF VariationHit(expanded, MISSPELLINGS_AND_VARIATIONS[n]) THEN n
    ELSE FirstVariation(expanded, n + 1)

\* the three loops of check_input over the expanded text
CheckExpanded(expanded, core, hit, ord) ==
    IF core # {} THEN Checked(FALSE, FirstIn(ord, core))
    ELSE IF hit # 0 THEN Checked(FALSE, MISSPELLINGS_AND_VARIATIONS[hit].word)
    ELSE IF \E n \in 1..Len(SHORT_FORMS) : HasWord(expanded, SHORT_FORMS[n][1])
    THEN Checked(FALSE, "profanity")
    ELSE Checked(TRUE, "")

CoreWordsIn(expanded) == {w \in CORE_BANNED_WORDS : HasWord(expanded, w)}
Expanded(text) == _expand_short_forms(Strip(Lower(text)))

\* check_input of simple_safety.py
simple_check_input(text, ord) ==
    IF text = "" THEN Checked(TRUE, "")
    ELSE CheckExpanded(Expanded(text), CoreWordsIn(Expanded(text)),
                       FirstVariation(Expanded(text), 1), ord)

\* get_violation_response of simple_safety.py: the template of the first core
\* word the text holds as a substring
CoreSubstringsIn(text) == {w \in CORE_BANNED_WORDS : Contains(Lower(text), w)}
ResponseAmong(held, ord) ==
    IF held # {} THEN simple_ResponseFor(FirstIn(ord, held))
    ELSE simple_Template("default")
simple_get_violation_response(text, ord) == ResponseAmong(CoreSubstringsIn(text), ord)

\* the orders in which a run can meet the core words that matter for a text
Orderings(S) ==
    {f \in [1..Cardinality(S) -> S] : \A a, b \in 1..Cardinality(S) : f[a] = f[b] => a = b}
IterationOrders(text) == Orderings(CoreSubstringsIn(text) \cup CoreWordsIn(Expanded(text)))

(***************************************************************************)
(* src/agents/smart_guide.py                                               *)
(***************************************************************************)

\* SmartGuide.process_query: the safety check comes first and answers a
\* rejected query itself; a query that passes goes on to _analyze_query and
\* _generate_response
Screening(safety_result, violation_response) ==
    IF ~safety_result.ok
    THEN [type |-> "safety_violation", text |-> violation_response, blocked |-> TRUE]
    ELSE [type |-> "response", text |-> None, blocked |-> FALSE]
process_query(user_query, ord) ==
    Screening(simple_check_input(user_query, ord),
              simple_get_violation_response(user_query, ord))

\* the queries put to the guide, and what process_query can answer to each
Queries ==
    {"wtf", "k1ll you", "i will kill you", "fuck and kill", "smh", "weather in kandy"}
GuideAnswers == [q \in Queries |-> {process_query(q, ord) : ord \in IterationOrders(q)}]

(***************************************************************************)
(* src/old_system/ir_agent.py                                              *)
(***************************************************************************)

\* data/places.json is data, not code; these rows stand for it, in file order
PLACES ==
    << [name |-> "Sigiriya", aliases |-> <<"Lion Rock">>],
       [name |-> "Kandy", aliases |-> <<>>],
       [name |-> "Galle", aliases |-> <<"Galle Fort">>] >>

\* re.sub(r"[^a-z0-9]+", " ", s.lower()).strip()
IsNormChar(c) == IsLower(c) \/ IsDigit(c)
RECURSIVE NormRun(_, _)
NormRun(s, i) == IF i < Len(s) /\ ~IsNormChar(At(s, i)) THEN NormRun(s, i + 1) ELSE i
RECURSIVE NormSub(_)
NormSub(s) ==
    IF s = "" THEN ""
    ELSE IF IsNormChar(Head(s)) THEN Head(s) \o NormSub(Tail(s))
    ELSE " " \o NormSub(Slice(s, NormRun(s, 0), Len(s)))
_norm(s) == Strip(NormSub(Lower(s)))

\* difflib.SequenceMatcher: length of the common run of a from i and b from j
RECURSIVE RunLen(_, _, _, _, _, _)
RunLen(a, i, ahi, b, j, bhi) ==
    IF i < ahi /\ j < bhi /\ At(a, i) = At(b, j)
    THEN 1 + RunLen(a, i + 1, ahi, b, j + 1, bhi)
    ELSE 0

\* find_longest_match(alo, ahi, blo, bhi) as <<i, j, k>>: the longest block,
\* the earliest in a among the longest, the earliest in b among those
Pairs(alo, ahi, blo, bhi) == (alo..(ahi - 1)) \X (blo..(bhi - 1))
RunLens(a, ahi, b, bhi, pairs) ==
    [p \in pairs |-> RunLen(a, p[1], ahi, b, p[2], bhi)]
Before(p, q, len) ==
    \/ len[p] > len[q]
    \/ len[p] = len[q] /\ p[1] < q[1]
    \/ len[p] = len[q] /\ p[1] = q[1] /\ p[2] <= q[2]
Block(p, k, alo, blo) == IF k = 0 THEN <<alo, blo, 0>> ELSE <<p[1], p[2], k>>
LongestIn(pairs, len, alo, blo) ==
    IF pairs = {} THEN <<alo, blo, 0>>
    ELSE Block(CHOOSE p \in pairs : \A q \in pairs : Before(p, q, len),
               len[CHOOSE p \in pairs : \A q \in pairs : Before(p, q, len)], alo, blo)
LongestMatch(a, alo, ahi, b, blo, bhi) ==
    LongestIn(Pairs(alo, ahi, blo, bhi),
              RunLens(a, ahi, b, bhi, Pairs(alo, ahi, blo, bhi)), alo, blo)

\* get_matching_blocks: total size of the blocks found left and right of the
\* longest one m, recursively
RECURSIVE Matches(_, _, _, _, _, _)
RECURSIVE MatchesAround(_, _, _, _, _, _, _)
MatchesAround(a, alo, ahi, b, blo, bhi, m) ==
    IF m[3] = 0 THEN 0
    ELSE m[3]
         + (IF alo < m[1] /\ blo < m[2] THEN Matches(a, alo, m[1], b, blo, m[2]) ELSE 0)
         + (IF m[1] + m[3] < ahi /\ m[2] + m[3] < bhi
            THEN Matches(a, m[1] + m[3], ahi, b, m[2] + m[3], bhi) ELSE 0)
Matches(a, alo, ahi, b, blo, bhi) ==
    MatchesAround(a, alo, ahi, b, blo, bhi, LongestMatch(a, alo, ahi, b, blo, bhi))

\* ratio() = 2 * M / T as the pair <<2M, T>>; an empty pair of texts has ratio 1
Ratio(a, b) ==
    IF Len(a) + Len(b) = 0 THEN <<1, 1>>
    ELSE <<2 * Matches(a, 0, Len(a), b, 0, Len(b)), Len(a) + Len(b)>>

\* cutoff=0.6 of get_close_matches, as the fraction 6/10
CUTOFF_NUM == 6
CUTOFF_DEN == 10
RatioAtLeastCutoff(r) == r[1] * CUTOFF_DEN >= CUTOFF_NUM * r[2]

\* Python's order on the normalized texts (characters blank, 0-9, a-z)
ORDER == " 0123456789abcdefghijklmnopqrstuvwxyz"
OrderPos == Positions(ORDER)
RECURSIVE StrLess(_, _)
StrLess(a, b) ==
    IF b = "" THEN FALSE
    ELSE IF a = "" THEN TRUE
    ELSE IF Head(a) = Head(b) THEN StrLess(Tail(a), Tail(b))
    ELSE OrderPos[Head(a)] < OrderPos[Head(b)]

\* the normalized names of the gazetteer, in file order
NormNames == [n \in 1..Len(PLACES) |-> _norm(PLACES[n].name)]

\* difflib.get_close_matches(qn, names, n=1, cutoff=0.6): the index of the
\* name with the largest (ratio, name) among those that reach the cutoff, 0
\* when none does.  best is <<index, ratio>> of the largest so far.
Closer(best, n, r) ==
    IF ~RatioAtLeastCutoff(r) THEN best
    ELSE IF best[1] = 0 THEN <<n, r>>
    ELSE IF r[1] * best[2][2] > best[2][1] * r[2] THEN <<n, r>>
    ELSE IF r[1] * best[2][2] = best[2][1] * r[2] /\ StrLess(NormNames[best[1]], NormNames[n])
    THEN <<n, r>>
    ELSE best
RECURSIVE CloseScan(_, _, _)
CloseScan(qn, n, best) ==
    IF n > Len(PLACES) THEN best[1]
    ELSE CloseScan(qn, n + 1, Closer(best, n, Ratio(NormNames[n], qn)))
CloseMatch(qn) == CloseScan(qn, 1, <<0, <<0, 1>>>>)

\* the keys of an entry: [name] + aliases
Keys(n) == <<PLACES[n].name>> \o PLACES[n].aliases

\* qn == kn or qn in kn or kn in qn
HitsKey(qn, kn) == qn = kn \/ Contains(kn, qn) \/ Contains(qn, kn)
ExactHit(qn, n) == \E k \in 1..Len(Keys(n)) : HitsKey(qn, _norm(Keys(n)[k]))

\* the first entry with a key that hits, 0 when there is none
RECURSIVE FirstExact(_, _)
FirstExact(qn, n) ==
    IF n > Len(PLACES) THEN 0
    ELSE IF ExactHit(qn, n) THEN n
    ELSE FirstExact(qn, n + 1)

\* _best_match(q): the name of the matched place, None when there is none
NameAt(n) == IF n > 0 THEN PLACES[n].name ELSE None
FuzzyMatch(qn, exact) == IF exact > 0 THEN NameAt(exact) ELSE NameAt(CloseMatch(qn))
NormMatch(qn) == FuzzyMatch(qn, FirstExact(qn, 1))
_best_match(q) ==
    IF q = "" \/ q = None THEN None
    ELSE NormMatch(_norm(q))

\* lookup_place(place): the record's "place", None when nothing matches
lookup_place(place) == _best_match(place)

(***************************************************************************)
(* src/agents/smart_guide.py: the classifier _analyze_query                *)
(***************************************************************************)
\* self.known_sri_lanka_places; data/sri_lanka_places.csv is not in the
\* repository, so the set built in __init__ is all of it
known_sri_lanka_places ==
    {"colombo", "kandy", "galle", "jaffna", "anuradhapura", "polonnaruwa", "dambulla",
     "sigiriya", "trincomalee", "nuwara eliya", "ella", "negombo", "batticaloa",
     "kurunegala", "ratnapura", "bentota", "mirissa", "unawatuna", "hikkaduwa",
     "arugam bay", "kalpitiya", "matara", "badulla", "kurunagala", "hambantota",
     "puttalam", "vavuniya", "mannar", "kilinochchi", "mullaitivu", "matale",
     "kegalle", "monaragala", "ampara", "trinco", "gampaha", "kalutara",
     "gampola", "hatton", "haputale", "bandarawela", "weligama", "tangalle",
     "beruwala", "panadura", "moratuwa", "dehiwala", "maharagama", "avissawella"}

\* str.replace(old, new)
RECURSIVE Replace(_, _, _)
Replace(s, old, new) ==
    LET at == {i \in 0..(Len(s) - Len(old)) : StartsAt(s, old, i)}
    IN IF at = {} THEN s
       ELSE Slice(s, 0, MinOf(at)) \o new
            \o Replace(Slice(s, MinOf(at) + Len(old), Len(s)), old, new)

\* the dict spelling_corrections of _normalize_query, in the order of its keys
spelling_corrections ==
    << <<"columbo", "colombo">>, <<"kandi", "kandy">>, <<"candy", "kandy">>,
       <<"sigiri", "sigiriya">>, <<"gale", "galle">>, <<"negambo", "negombo">>,
       <<"anuradapura", "anuradhapura">>, <<"polonnaruwa", "polonnaruwa">>,
       <<"trincomalee", "trincomalee">>, <<"nuwara", "nuwara eliya">>,
       <<"nuwara eliya", "nuwara eliya">>, <<"dambulla", "dambulla">>,
       <<"bentota", "bentota">>, <<"mirissa", "mirissa">>,
       <<"unawatuna", "unawatuna">>, <<"ella", "ella">>, <<"jaffna", "jaffna">>,
       <<"batticaloa", "batticaloa">>, <<"kurunegala", "kurunegala">>,
       <<"ratnapura", "ratnapura">> >>

RECURSIVE Corrected(_, _)
Corrected(query, k) ==
    IF k > Len(spelling_corrections) THEN query
    ELSE IF Contains(query, spelling_corrections[k][1])
    THEN Corrected(Replace(query, spelling_corrections[k][1], spelling_corrections[k][2]), k + 1)
    ELSE Corrected(query, k + 1)

_normalize_query(query) == Corrected(Strip(Lower(query)), 1)

\* difflib.get_close_matches(candidate, places, n=1, cutoff=0.75): the place
\* with the largest (ratio, place) among those that reach the cutoff, None
\* when there is none
FUZZY_CUTOFF_NUM == 75
FUZZY_CUTOFF_DEN == 100
ReachesCutoff(r) == r[1] * FUZZY_CUTOFF_DEN >= FUZZY_CUTOFF_NUM * r[2]
\* real_quick_ratio(): the bound by the lengths, tried before ratio()
real_quick_ratio(a, b) ==
    IF Len(a) + Len(b) = 0 THEN <<1, 1>> ELSE <<2 * Min(Len(a), Len(b)), Len(a) + Len(b)>>
Scored(candidate, places) ==
    [x \in {x \in places : ReachesCutoff(real_quick_ratio(x, candidate))} |-> Ratio(x, candidate)]
Better(x, y, score) ==
    \/ score[x][1] * score[y][2] > score[y][1] * score[x][2]
    \/ score[x][1] * score[y][2] = score[y][1] * score[x][2] /\ (x = y \/ StrLess(y, x))
BestOf(score) ==
    LET close == {x \in DOMAIN score : ReachesCutoff(score[x])}
    IN IF close = {} THEN None
       ELSE CHOOSE x \in close : \A y \in close : Better(x, y, score)
get_close_matches(candidate, places) == BestOf(Scored(candidate, places))

\* _fuzzy_correct_place(name)
_fuzzy_correct_place(name) ==
    LET candidate == Lower(Strip(name))
        matches == get_close_matches(candidate, known_sri_lanka_places)
    IN IF name = "" THEN name
       ELSE IF candidate \in known_sri_lanka_places THEN candidate
       ELSE IF matches # None THEN matches
       ELSE candidate

\* A pattern is a sequence of pieces: <<"lit", text>>, <<"sp">> for \s+,
\* <<"num">> for (\d+), <<"word">> for (\w+), <<"run">> for ([\w\s]+),
\* <<"alt", texts>> for (?:a|b|...) and <<"opt", pieces>> for (?:...)?.  Every
\* repetition is followed by a piece that cannot start with a character of
\* the repetition, so the longest run is the only one that can match.
RECURSIVE WordSpaceEnd(_, _)
WordSpaceEnd(s, i) ==
    IF IsWord(At(s, i)) \/ IsSpace(At(s, i)) THEN WordSpaceEnd(s, i + 1) ELSE i

NoMatch == [found |-> FALSE, groups |-> <<>>]
RECURSIVE MatchAt(_, _, _, _, _)
RECURSIVE MatchAlt(_, _, _, _, _, _)
MatchAlt(q, i, pat, k, groups, n) ==
    IF n > Len(pat[k][2]) THEN NoMatch
    ELSE IF StartsAt(q, pat[k][2][n], i)
              /\ MatchAt(q, i + Len(pat[k][2][n]), pat, k + 1, groups).found
         THEN MatchAt(q, i + Len(pat[k][2][n]), pat, k + 1, groups)
         ELSE MatchAlt(q, i, pat, k, groups, n + 1)
MatchAt(q, i, pat, k, groups) ==
    IF k > Len(pat) THEN [found |-> TRUE, groups |-> groups]
    ELSE CASE pat[k][1] = "lit" ->
                IF StartsAt(q, pat[k][2], i)
                THEN MatchAt(q, i + Len(pat[k][2]), pat, k + 1, groups) ELSE NoMatch
           [] pat[k][1] = "sp" ->
                IF IsSpace(At(q, i))
                THEN MatchAt(q, SpaceEnd(q, i), pat, k + 1, groups) ELSE NoMatch
           [] pat[k][1] = "num" ->
                IF IsDigit(At(q, i))
                THEN MatchAt(q, DigitsEnd(q, i), pat, k + 1,
                             Append(groups, Slice(q, i, DigitsEnd(q, i))))
                ELSE NoMatch
           [] pat[k][1] = "word" ->
                IF IsWord(At(q, i))
                THEN MatchAt(q, WordEnd(q, i), pat, k + 1,
                             Append(groups, Slice(q, i, WordEnd(q, i))))
                ELSE NoMatch
           [] pat[k][1] = "run" ->
                IF IsWord(At(q, i)) \/ IsSpace(At(q, i))
                THEN MatchAt(q, WordSpaceEnd(q, i), pat, k + 1,
                             Append(groups, Slice(q, i, WordSpaceEnd(q, i))))
                ELSE NoMatch
           [] pat[k][1] = "alt" -> MatchAlt(q, i, pat, k, groups, 1)
           [] pat[k][1] = "opt" ->
                IF MatchAt(q, i, pat[k][2] \o SubSeq(pat, k + 1, Len(pat)), 1, groups).found
                THEN MatchAt(q, i, pat[k][2] \o SubSeq(pat, k + 1, Len(pat)), 1, groups)
                ELSE MatchAt(q, i, pat, k + 1, groups)

\* re.search(pattern, query): the match that starts leftmost
re_search(pat, q) ==
    LET starts == {i \in 0..Len(q) : MatchAt(q, i, pat, 1, <<>>).found}
    IN IF starts = {} THEN NoMatch ELSE MatchAt(q, MinOf(starts), pat, 1, <<>>)

\* the pieces the patterns of _analyze_query are made of
Lit(text) == <<"lit", text>>
Sp == <<"sp">>
Num == <<"num">>
Word == <<"word">>
OptTo == <<"opt", <<Lit("to"), Sp>>>>

\* trip_patterns (lines 88-94); the last has the place first and the number
\* second
TripBefore(unit) == <<Num, Sp, Lit(unit), Sp, Lit("trip"), Sp, OptTo, Word>>
trip_patterns ==
    << <<Lit("plan"), Sp, Lit("a"), Sp>> \o TripBefore("hour"),
       <<Lit("plan"), Sp, Lit("a"), Sp>> \o TripBefore("day"),
       TripBefore("hour"),
       TripBefore("day"),
       <<Lit("trip"), Sp, OptTo, Word, Sp, Lit("for"), Sp, Num, Sp,
         <<"alt", <<"hour", "day">>>>>> >>

\* weather_patterns (lines 108-113) and place_patterns (lines 133-139)
weather_patterns ==
    << <<Lit("weather"), Sp, <<"alt", <<"in", "at", "for">>>>, Sp, Word>>,
       <<Word, Sp, Lit("weather")>>,
       <<Lit("temperature"), Sp, <<"alt", <<"in", "at">>>>, Sp, Word>>,
       <<Lit("climate"), Sp, <<"alt", <<"in", "at">>>>, Sp, Word>> >>
place_patterns ==
    << <<Lit("tell"), Sp, Lit("me"), Sp, Lit("about"), Sp, Word>>,
       <<Lit("what"), Sp, Lit("is"), Sp, Word>>,
       <<Lit("information"), Sp, Lit("about"), Sp, Word>>,
       <<Word, Sp, Lit("details")>>,
       <<Lit("about"), Sp, Word>> >>

\* for pattern in patterns: match = re.search(pattern, query); if match: ...
\* -- the first pattern of the list that matches, 0 when none does
FirstMatching(patterns, query) ==
    LET hits == {n \in 1..Len(patterns) : re_search(patterns[n], query).found}
    IN IF hits = {} THEN 0 ELSE MinOf(hits)
FirstMatch(patterns, query) ==
    CHOOSE match \in {re_search(patterns[n], query) : n \in {FirstMatching(patterns, query)}} : TRUE

\* re.search(r"(?:a|b)\s+(\w+)", query) and re.search(r"lead\s+(?:a|b)\s+(\w+)",
\* query): group 1, or the default when there is no match
WordAfter(alts, query, default) ==
    LET m == re_search(<<<<"alt", alts>>, Sp, Word>>, query)
    IN IF m.found THEN m.groups[1] ELSE default
WordAfterLead(lead, alts, query, default) ==
    LET m == re_search(<<Lit(lead), Sp, <<"alt", alts>>, Sp, Word>>, query)
    IN IF m.found THEN m.groups[1] ELSE default

\* re.search(r"(?:where\s+is|location\s+of|locate)\s+([\w\s]+)", query)
where_patterns ==
    << <<Lit("where"), Sp, Lit("is"), Sp, <<"run">>>>,
       <<Lit("location"), Sp, Lit("of"), Sp, <<"run">>>>,
       <<Lit("locate"), Sp, <<"run">>>> >>
WhereStarts(query) ==
    {i \in 0..Len(query) : \E n \in 1..Len(where_patterns) :
        MatchAt(query, i, where_patterns[n], 1, <<>>).found}
where_match(query) ==
    LET i == MinOf(WhereStarts(query))
        n == MinOf({n \in 1..Len(where_patterns) :
                       MatchAt(query, i, where_patterns[n], 1, <<>>).found})
    IN MatchAt(query, i, where_patterns[n], 1, <<>>).groups[1]

\* re.findall(r"[a-zA-Z]+(?:\s+[a-zA-Z]+)?", query)
RECURSIVE findall_tokens(_)
findall_tokens(query) ==
    IF query = "" THEN <<>>
    ELSE IF ~IsLetter(Head(query)) THEN findall_tokens(Tail(query))
    ELSE LET e1 == LetterEnd(query, 0)
             b2 == SpaceEnd(query, e1)
             e == IF b2 > e1 /\ IsLetter(At(query, b2)) THEN LetterEnd(query, b2) ELSE e1
         IN <<Slice(query, 0, e)>> \o findall_tokens(Slice(query, e, Len(query)))

\* int(text): the text is out of \w+, so it is a number when it is digits
\* with single underscores between them, and a ValueError otherwise
IsIntLiteral(text) ==
    /\ text # ""
    /\ \A i \in 0..(Len(text) - 1) :
          \/ IsDigit(At(text, i))
          \/ At(text, i) = "_" /\ IsDigit(At(text, i - 1)) /\ IsDigit(At(text, i + 1))
IntOf(text) == ToInt(Replace(text, "_", ""))

\* what _analyze_query returns, or the exception it raises
Classified(intent, slots) == [raised |-> FALSE, intent |-> intent, slots |-> slots]
ValueError == [raised |-> TRUE, intent |-> None, slots |-> EmptyDict]

\* the groups of _analyze_query in the order of its statements
GROUPS ==
    <<"trip_planning", "weather", "restaurants", "hotels", "place_info", "attractions",
      "transportation", "history", "best_time", "cost", "distance", "location_lookup",
      "recommendations", "comparison", "beaches_list", "temples_list", "activities",
      "bare_place", "general">>

\* the keywords of the groups that look for one (`any(word in query ...)`)
KEYWORDS ==
    [restaurants |-> <<"restaurant", "food", "eat", "dining">>,
     hotels |-> <<"hotel", "stay", "accommodation", "lodging">>,
     attractions |-> <<"attractions", "places", "visit", "see", "things to do">>,
     transportation |-> <<"how to go", "how to reach", "transportation", "travel to",
                          "get to", "go to">>,
     history |-> <<"history", "historical", "ancient", "heritage">>,
     best_time |-> <<"best time", "when to visit", "season", "climate">>,
     cost |-> <<"cost", "price", "expensive", "budget", "cheap">>,
     distance |-> <<"distance", "how far", "from", "to">>,
     recommendations |-> <<"recommend", "suggest", "advise", "best">>,
     comparison |-> <<"compare", "vs", "versus", "difference">>,
     beaches_list |-> <<"beaches">>,
     temples_list |-> <<"temples">>,
     activities |-> <<"hiking", "photography", "nightlife", "shopping">>]

\* the bare place-name heuristic (lines 212-226): the one token of the query,
\* corrected, is a known place
BarePlace(query) ==
    LET tokens == findall_tokens(query)
    IN /\ Len(tokens) = 1
       /\ Lower(_fuzzy_correct_place(Strip(tokens[1]))) \in known_sri_lanka_places

\* whether the condition of the group's `if` holds for the normalized query
GroupMatches(group, query) ==
    CASE group = "trip_planning" -> FirstMatching(trip_patterns, query) # 0
      [] group = "weather" -> FirstMatching(weather_patterns, query) # 0
      [] group = "place_info" -> FirstMatching(place_patterns, query) # 0
      [] group = "location_lookup" -> WhereStarts(query) # {}
      [] group = "bare_place" -> BarePlace(query)
      [] group = "general" -> TRUE
      [] OTHER -> AnyIn(query, KEYWORDS[group])

\* a trip group that turns days into minutes
TripAnswer_minutes(query) ==
    LET groups == FirstMatch(trip_patterns, query).groups
    IN Classified("trip_planning", [duration |-> IntOf(groups[1]) * 24 * 60, city |-> groups[2]])

\* the trip group (lines 96-105): int(match.group(1)) and match.group(2) of
\* the first pattern that matches, days turned into hours
TripAnswer(query) ==
    LET groups == FirstMatch(trip_patterns, query).groups
    IN IF ~IsIntLiteral(groups[1]) THEN ValueError
       ELSE Classified("trip_planning",
                       [duration |-> IF Contains(query, "day") THEN IntOf(groups[1]) * 24
                                     ELSE IntOf(groups[1]),
                        city |-> groups[2]])

\* what the body of the group's `if` returns
Answer(group, query) ==
    CASE group = "trip_planning" -> TripAnswer(query)
      [] group = "weather" ->
            Classified(group, [location |-> _fuzzy_correct_place(
                                   FirstMatch(weather_patterns, query).groups[1])])
      [] group \in {"restaurants", "hotels"} ->
            Classified(group, [city |-> _fuzzy_correct_place(
                                   WordAfter(<<"in", "at", "near">>, query, "colombo"))])
      [] group = "place_info" ->
            Classified(group, [place |-> _fuzzy_correct_place(
                                   FirstMatch(place_patterns, query).groups[1])])
      [] group = "attractions" ->
            Classified(group, [city |-> _fuzzy_correct_place(
                                   WordAfter(<<"in", "at">>, query, "colombo"))])
      [] group = "transportation" ->
            Classified(group, [place |-> _fuzzy_correct_place(
                                   WordAfter(<<"to", "in">>, query, "sri lanka"))])
      [] group = "history" ->
            Classified(group, [place |-> _fuzzy_correct_place(
                                   WordAfter(<<"of", "in", "about">>, query, "sri lanka"))])
      [] group = "best_time" ->
            Classified(group, [place |-> _fuzzy_correct_place(
                                   WordAfter(<<"to visit", "in">>, query, "sri lanka"))])
      [] group = "cost" ->
            Classified(group, [place |-> _fuzzy_correct_place(
                                   WordAfter(<<"of", "in", "for">>, query, "sri lanka"))])
      [] group \in {"distance", "recommendations", "comparison", "general"} ->
            Classified(group, [query |-> query])
      [] group = "location_lookup" ->
            Classified(group, [place |-> _fuzzy_correct_place(Strip(where_match(query)))])
      [] group \in {"beaches_list", "temples_list"} ->
            Classified(group, [place |-> WordAfterLead(KEYWORDS[group][1], <<"in", "at", "near">>,
                                                      query, "sri lanka")])
      [] group = "activities" ->
            Classified(group, [activity |-> query,
                               place |-> WordAfter(<<"in", "at", "near">>, query, "sri lanka")])
      [] group = "bare_place" ->
            Classified("attractions",
                       [city |-> _fuzzy_correct_place(Strip(findall_tokens(query)[1]))])

\* a classifier in which the last group whose condition holds answers
FirstGroup_latest(order, query) ==
    order[MaxOf({k \in 1..Len(order) : GroupMatches(order[k], query)})]

\* the first group whose condition holds answers
FirstGroup(order, query) ==
    order[MinOf({k \in 1..Len(order) : GroupMatches(order[k], query)})]

\* _analyze_query(query): query = self._normalize_query(query) (line 86), and
\* the first group that matches the normalized query answers
_analyze_query(query) ==
    CHOOSE answer \in {Answer(FirstGroup(GROUPS, normalized), normalized) :
                           normalized \in {_normalize_query(query)}} : TRUE

(***************************************************************************)
(* The texts of the model.  The text functions are pure, so each is         *)
(* evaluated once per text and the handlers read the value from a table.    *)
(***************************************************************************)

\* the messages a user sends
Messages ==
    {"plan a tour", "kandy", "2 hours", "yes", "", "plan a tour in kandy",
     "please plan me a 2 hour tour", "plan a 2 hour tour in kandy", "<3  kandy",
     "hello", "quick facts", "ticket info", "shell hack"}


\* check_input(raw) and sanitize(raw) of each message
Screened == [m \in Messages |-> check_input(m)]
Sanitized == [m \in Messages |-> sanitize(m)]
UserMsgs == {Sanitized[m] : m \in Messages}

\* route_intent(user_msg) and parse_minutes(user_msg) of each sanitized message
RoutedAs == [t \in UserMsgs |-> route_intent(t)]
MinutesOf == [t \in UserMsgs |-> parse_minutes(t)]

\* the texts a place is looked up by: a message taken as the city, what the
\* router takes for a place or a city, and the names of the gazetteer
PlaceTextsOf(routed) ==
    ((DOMAIN routed \cup {routed[t].payload.place : t \in DOMAIN routed}
                    \cup {routed[t].payload.city : t \in DOMAIN routed}
                    \cup {PLACES[n].name : n \in 1..Len(PLACES)}) \ {None}) \cup {""}
PlaceTexts == PlaceTextsOf(RoutedAs)
PlaceOf == [p \in PlaceTexts |-> lookup_place(p)]

(***************************************************************************)
(* agents/itinerary_agent.py is not among the sources; plan is modelled    *)
(* from its use: it returns nothing, or a plan with stops for a city.       *)
(***************************************************************************)

\* What plan does is chosen by the caller of the model: "none" (no plan, or a
\* plan without stops) or "gazetteer" (a plan with stops for the gazetteer's
\* name of the city; none when the gazetteer has no such place).
\* The value is the plan's "city", None for no plan.  A third outcome,
\* "asked", is a plan with stops for the city as it was asked for, whether
\* the gazetteer has it or not.
PlanOutcomes == {"none", "gazetteer"}
PlanOutcomesAsked == PlanOutcomes \cup {"asked"}
plan(city, minutes, o) ==
    IF o = "gazetteer" THEN PlaceOf[city]
    ELSE IF o = "asked" THEN city
    ELSE None

(***************************************************************************)
(* src/utils/auth.py                                                       *)
(***************************************************************************)
ADMIN_USER == "admin"

\* require_auth(): bool(session.get("user"))
require_auth(s) == Get(s, "user", None) \notin {None, ""}

(***************************************************************************)
(* src/irwa-tour/app.py                                                    *)
(***************************************************************************)

\* uuid.uuid4(): an id that no entry of the history carries or refers to
UsedIds(history) ==
    {history[n].id : n \in 1..Len(history)} \cup {history[n].reply_to : n \in 1..Len(history)}
Uuid(history) == CHOOSE i \in 1..(2 * Len(history) + 1) :
                    /\ i \notin UsedIds(history)
                    /\ \A j \in 1..(i - 1) : j \in UsedIds(history)

\* history entries: {"id", "who", "text"[, "reply_to"]}.  No handler reads the
\* text of an entry, and the entries are kept without it; a user entry has no
\* "reply_to" (0)
UserEntry(id) == [id |-> id, who |-> "user", reply_to |-> 0]
BotEntry(id, user_id) == [id |-> id, who |-> "bot", reply_to |-> user_id]

\* what a request returns and what it did on the way
\*   status      HTTP status
\*   kind, reply which answer was given, and its text
\*   intent      the intent the turn was handled as (None: none was needed)
\*   classified  route_intent ran on the turn
\*   planned     <<city, minutes>> when plan was called, <<>> otherwise
\*   reply_to, bot_id   the ids returned to the UI (0: none)
Out(status, kind, reply, intent, classified, planned, user_id, bot_id) ==
    [status |-> status, kind |-> kind, reply |-> reply, intent |-> intent,
     classified |-> classified, planned |-> planned,
     reply_to |-> user_id, bot_id |-> bot_id]
NoOut == Out(0, None, None, None, FALSE, <<>>, 0, 0)

Result(s, out) == [session |-> s, out |-> out]

\* a clear_slots that forgets to empty the slots
clear_slots_pending_only(s) == Put(s, "pending", None)

\* clear_slots()
clear_slots(s) == Put(Put(s, "pending", None), "slots", EmptyDict)

WELCOME == "Hi! I am your Virtual Tour Guide."

\* the replies of the handler, cut to what tells them apart
AskMinutesReply(city) == "Great. How much time do you have for **" \o city \o "**?"
AskTimeReply(city) == "How much **time** do you have for **" \o city \o "**?"
RepromptReply == "Please tell me the time like **2 hours** or **150 min**."
PlanFailedReply == "I couldn't plan that."
ItineraryReply(city) == "**" \o city \o "** itinerary"
NotFoundReply == "I couldn't find that place."
FactsReply(place) == "**" \o place \o "** facts"
AskCityReply == "Which **city** would you like a tour for?"
GreetingReply(greeting) ==
    CASE greeting = "simple" -> "Hello! How can I help with your travel plans today?"
      [] greeting = "morning" -> "Good morning! Ready to explore?"
      [] greeting = "afternoon" -> "Good afternoon! Looking for places to visit or a short itinerary?"
      [] greeting = "evening" -> "Good evening! I can suggest highlights and plan a quick tour."
      [] greeting = "night" -> "Good night! Before you rest, want a plan for tomorrow?"
      [] OTHER -> "Hello! I'm glad you're here."
TicketReply(place) == "**" \o place \o " Ticket Info:**"
TransportReply(city) == "**Transportation Tips for " \o city \o ":**"
DiningReply(city) == "**Local Dining Recommendations for " \o city \o ":**"

\* every reply the handler can give for the texts of the model, and
\* check_output of each
Greetings == {"generic", "morning", "afternoon", "evening", "night", "simple"}
RepliesFor(cities) ==
    {WELCOME, RepromptReply, PlanFailedReply, NotFoundReply, AskCityReply}
    \cup {AskMinutesReply(c) : c \in cities} \cup {AskTimeReply(c) : c \in cities}
    \cup {ItineraryReply(c) : c \in cities} \cup {FactsReply(c) : c \in cities}
    \cup {TicketReply(c) : c \in cities} \cup {TransportReply(c) : c \in cities}
    \cup {DiningReply(c) : c \in cities} \cup {GreetingReply(g) : g \in Greetings}
Replies == RepliesFor(PlaceTexts)
OutputScreened == [t \in Replies |-> check_output(t)]

\* respond(reply, ..., extra=_append_bot_history(reply, user_id)): the bot's
\* entry is appended, then the reply is returned
_append_bot_history(s, text, user_id) ==
    LET h == Get(s, "history", <<>>)
    IN Put(s, "history", Append(h, BotEntry(Uuid(h), user_id)))

Respond(s, user_id, kind, reply, intent, classified, planned) ==
    LET bot_id == Uuid(Get(s, "history", <<>>))
        blocked == ~OutputScreened[reply].ok
    IN Result(_append_bot_history(s, reply, user_id),
              Out(200, IF blocked THEN "output_blocked" ELSE kind,
                  IF blocked THEN "Output blocked by Safety Agent." ELSE reply,
                  intent, classified, planned, user_id, bot_id))

confirm_words == {"yes", "yeah", "yep", "sure", "ok", "okay", "ya", "affirmative"}
followup_words == {"ticket info", "quick facts", "transportation tips",
                   "local dining recommendations"}

Truthy(v) == v # None /\ v # ""

\* a city branch that asks for the duration without keeping the city
AwaitingCity_forgets(s, user_id, user_msg) ==
    Respond(Put(Put(s, "pending", "minutes"), "slots", EmptyDict), user_id,
            "await_minutes",
            AskMinutesReply(user_msg), None, FALSE, <<>>)

\* a city branch that stores the city in title case
AwaitingCity_titled(s, user_id, user_msg) ==
    Respond(Put(Put(s, "pending", "minutes"), "slots",
                Put(Get(s, "slots", EmptyDict), "city", Title(user_msg))),
            user_id, "await_minutes", AskMinutesReply(user_msg), None, FALSE, <<>>)

\* the branch `if pending == "city"` (lines 158-166)
AwaitingCity(s, user_id, user_msg) ==
    LET slots == Put(Get(s, "slots", EmptyDict), "city", user_msg)
        s1 == Put(Put(s, "pending", "minutes"), "slots", slots)
    IN Respond(s1, user_id, "await_minutes",
               AskMinutesReply(user_msg), None, FALSE, <<>>)

\* a duration branch that re-prompts whatever the message is
AwaitingMinutes_reprompts(s, user_id, user_msg, o) ==
    Respond(s, user_id, "reprompt", RepromptReply, None, FALSE, <<>>)

\* the branch `if pending == "minutes"` (lines 168-194); o is what plan does
AwaitingMinutes(s, user_id, user_msg, o) ==
    LET slots == Get(s, "slots", EmptyDict)
        mins == MinutesOf[user_msg]
        city == Get(slots, "city", "")
        res == plan(city, mins, o)
        s1 == clear_slots(s)
    IN IF mins = NoneInt \/ mins = 0
       THEN Respond(s, user_id, "reprompt",
                    RepromptReply, None, FALSE, <<>>)
       ELSE IF res = None
       THEN Respond(s1, user_id, "plan_failed", PlanFailedReply,
                    "itinerary", FALSE, <<city, mins>>)
       ELSE Respond(Put(s1, "last_itinerary_city", res), user_id, "itinerary",
                    ItineraryReply(res), "itinerary", FALSE, <<city, mins>>)

\* a facts branch that remembers the place asked for when the lookup fails
Facts_remembers_asked(s, user_id, place, classified) ==
    Respond(Put(s, "last_place", place), user_id, "not_found", NotFoundReply,
            "facts", classified, <<>>)

\* `if intent == "facts"` (lines 299-333)
Facts(s, user_id, place, classified) ==
    LET res == PlaceOf[place]
    IN IF res = None
       THEN Respond(s, user_id, "not_found", NotFoundReply,
                    "facts", classified, <<>>)
       ELSE Respond(Put(s, "last_place", res), user_id, "facts",
                    FactsReply(res), "facts", classified, <<>>)

\* an itinerary branch that asks for the city whatever the router found
Itinerary_asks_city(s, user_id, city, minutes, classified, o) ==
    Respond(Put(Put(s, "pending", "city"), "slots", EmptyDict), user_id,
            "await_city", AskCityReply, "itinerary", classified, <<>>)

\* `if intent == "itinerary"` (lines 335-369); o is what plan does
Itinerary(s, user_id, city, minutes, classified, o) ==
    LET res == plan(city, minutes, o)
    IN
    IF ~Truthy(city)
    THEN Respond(Put(Put(s, "pending", "city"), "slots", EmptyDict), user_id,
                 "await_city", AskCityReply,
                 "itinerary", classified, <<>>)
    ELSE IF minutes = NoneInt \/ minutes = 0
    THEN Respond(Put(Put(s, "pending", "minutes"), "slots", Put(EmptyDict, "city", city)),
                 user_id, "await_minutes",
                 AskTimeReply(city),
                 "itinerary", classified, <<>>)
    ELSE IF res = None
    THEN Respond(s, user_id, "plan_failed", PlanFailedReply,
                 "itinerary", classified, <<city, minutes>>)
    ELSE Respond(Put(s, "last_itinerary_city", city), user_id, "itinerary",
                 ItineraryReply(res), "itinerary", classified, <<city, minutes>>)

\* dispatch on the intent (lines 262-372)
Dispatch(s, user_id, intent, payload, classified, o) ==
    IF intent \in {"help", "unknown"}
    THEN Respond(s, user_id, "welcome", WELCOME, intent, classified, <<>>)
    ELSE IF intent = "chitchat"
    THEN Respond(s, user_id, "chitchat", GreetingReply(payload.greeting),
                 intent, classified, <<>>)
    ELSE IF intent = "facts"
    THEN Facts(s, user_id, IF payload.place = None THEN "" ELSE payload.place, classified)
    ELSE IF intent = "itinerary"
    THEN Itinerary(s, user_id, payload.city, payload.minutes, classified, o)
    ELSE Respond(s, user_id, "welcome", WELCOME, intent, classified, <<>>)

\* an unhandled exception: the answer is a 500; the session as it stands is
\* saved with the response, or dropped when the debugger takes the request
Raise(s0, s, user_id, saved) ==
    Result(IF saved THEN s ELSE s0,
           Out(500, "error", "Internal Server Error", None, FALSE, <<>>, user_id, 0))

\* the follow-up shortcuts for the last itinerary city (lines 202-258)
FollowUp(s0, s, user_id, user_msg, o, saved) ==
    LET city == Get(s, "last_itinerary_city", None)
        t == Lower(user_msg)
    IN IF Contains(t, "ticket info")
       THEN (IF PlaceOf[city] # None
             THEN Respond(s, user_id, "ticket",
                          TicketReply(PlaceOf[city]),
                          None, FALSE, <<>>)
             \* no branch assigns intent: line 262 reads an unbound local
             ELSE Raise(s0, s, user_id, saved))
       ELSE IF Contains(t, "transportation tips")
       THEN Respond(s, user_id, "transport",
                    TransportReply(city), None, FALSE, <<>>)
       ELSE IF Contains(t, "local dining recommendations")
       THEN Respond(s, user_id, "dining",
                    DiningReply(city), None, FALSE, <<>>)
       ELSE Dispatch(s, user_id, "facts", Payload(None, NoneInt, city, None), FALSE, o)

\* an idle branch without the shortcuts: every message goes to the router
Idle_routes_all(s0, s, user_id, user_msg, o, saved) ==
    LET r == RoutedAs[user_msg]
    IN Dispatch(s, user_id, r.intent, r.payload, TRUE, o)

\* no pending slot: the shortcuts, else the router (lines 196-260)
Idle(s0, s, user_id, user_msg, o, saved) ==
    LET t == Strip(Lower(user_msg))
    IN IF t \in confirm_words /\ Truthy(Get(s, "last_place", None))
       THEN Dispatch(s, user_id, "itinerary",
                     Payload(Get(s, "last_place", None), NoneInt, None, None), FALSE, o)
       ELSE IF t \in followup_words /\ Truthy(Get(s, "last_itinerary_city", None))
       THEN FollowUp(s0, s, user_id, user_msg, o, saved)
       ELSE LET r == RoutedAs[user_msg]
            IN Dispatch(s, user_id, r.intent, r.payload, TRUE, o)

\* POST /chat with message raw.  chk is the result of check_input(raw), o what
\* plan does (when the turn calls it), saved whether a request that raises
\* still saves the session.
chat(s, raw, chk, o, saved) ==
    IF ~require_auth(s)
    THEN Result(s, Out(401, "login", "Please login first.", None, FALSE, <<>>, 0, 0))
    ELSE IF ~chk.ok
    THEN Result(s, Out(200, "violation", get_violation_response(chk.reason),
                       None, FALSE, <<>>, 0, 0))
    ELSE LET user_msg == Sanitized[raw]
             h == Get(s, "history", <<>>)
             user_id == Uuid(h)
             s1 == Put(s, "history", Append(h, UserEntry(user_id)))
             pending == Get(s1, "pending", None)
         IN IF pending = "city" THEN AwaitingCity(s1, user_id, user_msg)
            ELSE IF pending = "minutes" THEN AwaitingMinutes(s1, user_id, user_msg, o)
            ELSE Idle(s, s1, user_id, user_msg, o, saved)

\* GET /state: the city and the minutes of the stored slots
state(s) ==
    IF ~require_auth(s) THEN Result(s, Out(401, "state", None, None, FALSE, <<>>, 0, 0))
    ELSE Result(s, Out(200, "state",
                       [city |-> Get(Get(s, "slots", EmptyDict), "city", None),
                        minutes |-> Get(Get(s, "slots", EmptyDict), "minutes", None)],
                       None, FALSE, <<>>, 0, 0))

\* DELETE /history
clear_history(s) ==
    IF ~require_auth(s) THEN Result(s, Out(401, "login", None, None, FALSE, <<>>, 0, 0))
    ELSE Result(Put(s, "history", <<>>), Out(204, "cleared", "", None, FALSE, <<>>, 0, 0))

\* [m for m in hist if m.get("id") != msg_id]
RECURSIVE WithoutId(_, _)
WithoutId(hist, msg_id) ==
    IF Len(hist) = 0 THEN <<>>
    ELSE IF Head(hist).id = msg_id THEN WithoutId(Tail(hist), msg_id)
    ELSE <<Head(hist)>> \o WithoutId(Tail(hist), msg_id)

\* DELETE /history/<msg_id>
delete_message(s, msg_id) ==
    IF ~require_auth(s) THEN Result(s, Out(401, "login", None, None, FALSE, <<>>, 0, 0))
    ELSE Result(Put(s, "history", WithoutId(Get(s, "history", <<>>), msg_id)),
                Out(204, "deleted", "", None, FALSE, <<>>, 0, 0))

\* GET /
index(s) ==
    IF ~require_auth(s) THEN Result(s, Out(302, "login", None, None, FALSE, <<>>, 0, 0))
    ELSE Result(SetDefault(SetDefault(SetDefault(s, "pending", None), "slots", EmptyDict),
                           "history", <<>>),
                Out(200, "index", "", None, FALSE, <<>>, 0, 0))

\* POST /login: do_login stores the user when the credentials are the admin's
login_submit(s, valid) ==
    IF valid THEN Result(Put(s, "user", ADMIN_USER), Out(302, "index", None, None, FALSE, <<>>, 0, 0))
    ELSE Result(s, Out(200, "login", "Invalid credentials.", None, FALSE, <<>>, 0, 0))

\* GET /logout
logout(s) == Result(Pop(s, "user"), Out(302, "login", None, None, FALSE, <<>>, 0, 0))

(***************************************************************************)
(* src/app_old.py: the new-chat endpoint of the same application           *)
(***************************************************************************)
new_chat(s) ==
    IF ~require_auth(s) THEN Result(s, Out(401, "login", "Please login first.", None, FALSE, <<>>, 0, 0))
    ELSE Result(Put(Put(s, "history", <<>>), "last_place", None),
                Out(200, "new_chat", "Hello! I'm your Virtual Tour Guide for Sri Lanka.",
                    None, FALSE, <<>>, 0, 0))

(***************************************************************************)
(* src/app.py: the application built on SmartGuide.  A session cookie holds *)
(* user, history and saved_chats; smart_guide is one object of the process. *)
(***************************************************************************)
\* SmartGuide.process_query, lines 73-78: an answered query is appended to
\* self.conversation_history (by names the browser that sent it; no such
\* field exists in the entry the code stores)
Remembered(conversation_history, user_query, by) ==
    Append(conversation_history, [user |-> user_query, by |-> by])

\* uuid.uuid4(): an identifier no entry of the history carries
NewUuid(history) ==
    CHOOSE n \in 1..(Len(history) + 1) :
        /\ \A k \in 1..Len(history) : history[k].id[1] # n
        /\ \A m \in 1..(n - 1) : \E k \in 1..Len(history) : history[k].id[1] = m

\* the entries chat and new_chat append; greets says whether the text holds
\* "Hello!", "Good morning", "Good afternoon" or "Good evening"
UserTurn(id) == [id |-> <<id, "">>, who |-> "user", type |-> None, greets |-> FALSE]
BotTurn(id, type, greets) == [id |-> <<id, "_bot">>, who |-> "bot", type |-> type, greets |-> greets]
WelcomeTurn(id) == [id |-> <<id, "session_bot">>, who |-> "bot", type |-> "welcome", greets |-> TRUE]

\* what a handler of src/app.py leaves behind: the session, the guide's log
\* and the response
Served(s, conversation_history, status, kind) ==
    [session |-> s, conversation_history |-> conversation_history,
     out |-> Out(status, kind, None, None, FALSE, <<>>, 0, 0)]

\* POST /chat; response is what process_query returned, raised whether it
\* raised instead, greets a property of the text of an answer
app_chat(s, conversation_history, by, message, response, raised, greets) ==
    IF ~require_auth(s) THEN Served(s, conversation_history, 401, "login")
    ELSE LET user_msg == Strip(message)
         IN IF user_msg = "" THEN Served(s, conversation_history, 400, "empty")
            ELSE LET s1 == SetDefault(s, "history", <<>>)
                     history == s1["history"]
                     conversation_id == NewUuid(history)
                 IN IF raised THEN Served(s1, conversation_history, 500, "error")
                    ELSE Served(Put(s1, "history",
                                    history \o <<UserTurn(conversation_id),
                                                 BotTurn(conversation_id, response.type,
                                                         ~response.blocked /\ greets)>>),
                                IF response.blocked THEN conversation_history
                                ELSE Remembered(conversation_history, user_msg, by),
                                200, response.type)

\* POST /new-chat
app_new_chat(s, conversation_history) ==
    IF ~require_auth(s) THEN Served(s, conversation_history, 401, "login")
    ELSE LET s1 == SetDefault(s, "history", <<>>)
             history == s1["history"]
         IN Served(Put(s1, "history", Append(history, WelcomeTurn(NewUuid(history)))),
                   conversation_history, 200, "welcome")

\* DELETE /history; smart_guide.clear_history() empties the guide's log
app_clear_history(s, conversation_history) ==
    IF ~require_auth(s) THEN Served(s, conversation_history, 401, "login")
    ELSE Served(Put(Put(s, "history", <<>>), "saved_chats", <<>>), <<>>, 200, "cleared")

is_session_start(msg) == msg.who = "bot" /\ (msg.type = "welcome" \/ msg.greets)

\* DELETE /history/<message_id>: the chat session around the message goes,
\* from its session start up to the next one
app_delete_message_rotates(s, conversation_history, message_id) ==
    LET history == Get(s, "history", <<>>)
        found == {i \in 1..Len(history) : history[i].id = message_id}
    IN IF ~require_auth(s) \/ found = {} THEN Served(s, conversation_history, 200, "deleted")
       ELSE LET target_index == MinOf(found)
            IN Served(Put(s, "history",
                          SubSeq(history, target_index + 1, Len(history))
                              \o SubSeq(history, 1, target_index - 1)),
                      conversation_history, 200, "deleted")

\* DELETE /history/<message_id> that removes the one entry with the id
app_delete_message_one_entry(s, conversation_history, message_id) ==
    LET history == Get(s, "history", <<>>)
        found == {i \in 1..Len(history) : history[i].id = message_id}
    IN IF ~require_auth(s) THEN Served(s, conversation_history, 401, "login")
       ELSE IF found = {} THEN Served(s, conversation_history, 200, "deleted")
       ELSE Served(Put(s, "history",
                       SubSeq(history, 1, MinOf(found) - 1)
                           \o SubSeq(history, MinOf(found) + 1, Len(history))),
                   conversation_history, 200, "deleted")

app_delete_message(s, conversation_history, message_id) ==
    IF ~require_auth(s) THEN Served(s, conversation_history, 401, "login")
    ELSE LET history == Get(s, "history", <<>>)
             found == {i \in 1..Len(history) : history[i].id = message_id}
         IN IF history = <<>> \/ found = {} THEN Served(s, conversation_history, 200, "deleted")
            ELSE LET target_index == MinOf(found)
                     starts == {i \in 1..target_index : is_session_start(history[i])}
                     ends == {i \in (target_index + 1)..Len(history) : is_session_start(history[i])}
                     start_index == IF starts = {} THEN 1 ELSE MaxOf(starts)
                     end_index == IF ends = {} THEN Len(history) + 1 ELSE MinOf(ends)
                 IN Served(Put(s, "history",
                               SubSeq(history, 1, start_index - 1)
                                   \o SubSeq(history, end_index, Len(history))),
                           conversation_history, 200, "deleted")

(***************************************************************************)
(* The state machine: one browser session and the requests it sends        *)
(***************************************************************************)

\* session  the Flask session of the browser (a dict)
\* last     the last request: its endpoint, its message, and the status and
\*          the kind of the answer
VARIABLES session, last, browsers, conversation_history, client, input, output
\* session and last belong to the application of src/irwa-tour/app.py;
\* browsers, conversation_history and client to the one of src/app.py: the
\* session cookie of each browser, smart_guide.conversation_history of the
\* process, and the browser whose request was served last; input and output
\* are the argument and the result of a call of one of the text functions
vars == <<session, last, browsers, conversation_history, client, input, output>>

\* longest history a session is let grow to
MaxHistory == 2

Request(op, raw, out) == [op |-> op, raw |-> raw, status |-> out.status, kind |-> out.kind]

Browsers == {"a", "b"}

\* no request served yet
Started ==
    /\ session = EmptyDict
    /\ last = Request("start", "", NoOut)
    /\ browsers = [x \in Browsers |-> EmptyDict]
    /\ conversation_history = <<>>
    /\ client = "a"

\* a call of the function fn, and what it returned
Call(fn, arg) == [fn |-> fn, arg |-> arg]
Return(fn, value) == [fn |-> fn, value |-> value]

Init ==
    /\ Started
    /\ input = Call(None, None)
    /\ output = Return(None, None)

Handled(op, raw, r) ==
    /\ session' = r.session
    /\ last' = Request(op, raw, r.out)
    /\ UNCHANGED <<browsers, conversation_history, client, input, output>>

Login ==
    \E valid \in BOOLEAN : Handled("login", "", login_submit(session, valid))

Logout ==
    Handled("logout", "", logout(session))

Index ==
    Handled("index", "", index(session))

ClearHistory ==
    Handled("clear_history", "", clear_history(session))

NewChat ==
    Handled("new_chat", "", new_chat(session))

DeleteMessage ==
    \E msg_id \in 0..MaxHistory :
        Handled("delete_message", "", delete_message(session, msg_id))

Chat ==
    /\ Len(Get(session, "history", <<>>)) + 2 <= MaxHistory
    /\ \E raw \in Messages : \E chk \in Screened[raw] :
       \E o \in PlanOutcomes : \E saved \in BOOLEAN :
          Handled("chat", raw, chat(session, raw, chk, o, saved))

\* a query put to process_query of a SmartGuide made for the call: it reads and
\* writes no session, and the log of that guide goes with it
Ask ==
    \E q \in Queries : \E r \in GuideAnswers[q] :
        Handled("process_query", q,
                Result(session, Out(0, r.type, r.text, None, FALSE, <<>>, 0, 0)))

\* a dialogue in which plan can also answer for the city as asked
FollowChat ==
    /\ Len(Get(session, "history", <<>>)) + 2 <= MaxHistory
    /\ \E raw \in Messages : \E chk \in Screened[raw] :
       \E o \in PlanOutcomesAsked : \E saved \in BOOLEAN :
          Handled("chat", raw, chat(session, raw, chk, o, saved))

FollowNext ==
    \/ Login
    \/ FollowChat
    \/ ClearHistory

FollowSpec == Init /\ [][FollowNext]_vars

Next ==
    \/ Login
    \/ Logout
    \/ Index
    \/ Chat
    \/ ClearHistory
    \/ DeleteMessage
    \/ NewChat
    \/ Ask

Spec == Init /\ [][Next]_vars

(***************************************************************************)
(* The state machine of src/app.py: two browsers, each with its own        *)
(* session cookie, served by one process                                   *)
(***************************************************************************)
\* most entries the histories of the browsers hold together, and most turns
\* the guide's log holds
MaxLog == 3
MaxLogged == 1

Logged == Len(Get(browsers["a"], "history", <<>>)) + Len(Get(browsers["b"], "history", <<>>))

ChatMessages == {"", "wtf", " weather in kandy"}
AnswersTo(message) ==
    IF Strip(message) \in Queries THEN GuideAnswers[Strip(message)]
    ELSE {Screening(Checked(TRUE, ""), None)}

MessageIds == (1..MaxLog) \X {"", "_bot", "session_bot"}

Visit(x, op, raw, r) ==
    /\ browsers' = [browsers EXCEPT ![x] = r.session]
    /\ conversation_history' = r.conversation_history
    /\ client' = x
    /\ last' = Request(op, raw, r.out)
    /\ UNCHANGED <<session, input, output>>

GuideLogin ==
    \E x \in Browsers : \E valid \in BOOLEAN :
        LET r == login_submit(browsers[x], valid)
        IN Visit(x, "login", "", Served(r.session, conversation_history, r.out.status, r.out.kind))

GuideChat ==
    \E x \in Browsers : \E message \in ChatMessages :
    \E response \in AnswersTo(message) : \E raised \in BOOLEAN : \E greets \in BOOLEAN :
        /\ Logged + 2 <= MaxLog
        /\ response.blocked \/ Len(conversation_history) < MaxLogged
        /\ Visit(x, "chat", "",
                 app_chat(browsers[x], conversation_history, x, message, response, raised, greets))

GuideNewChat ==
    \E x \in Browsers :
        /\ Logged < MaxLog
        /\ Visit(x, "new_chat", "", app_new_chat(browsers[x], conversation_history))

GuideClearHistory ==
    \E x \in Browsers :
        Visit(x, "clear_history", "", app_clear_history(browsers[x], conversation_history))

GuideDeleteMessage ==
    \E x \in Browsers : \E message_id \in MessageIds :
        Visit(x, "delete_message", "", app_delete_message(browsers[x], conversation_history, message_id))

GuideNext ==
    \/ GuideLogin
    \/ GuideChat
    \/ GuideNewChat
    \/ GuideClearHistory
    \/ GuideDeleteMessage

GuideSpec == Init /\ [][GuideNext]_vars

(***************************************************************************)
(* check_input of src/agents/safety_agent.py, applied to a set of texts    *)
(***************************************************************************)
\* pieces that trip one rule each, or none, alone and two at a time
ScreenPieces ==
    {"kill", "K*LL", "Bomb", "stolen", "arse", "<b>", "<3", "eval (x)",
     "delete  from t", "go go go go go go", "go go go go go", "hello", "beach"}
ScreenTexts == ScreenPieces \cup {a \o " " \o b : a, b \in ScreenPieces}

\* a text as it is, filled with blanks up to the length limit, and one beyond
ScreenInputs ==
    UNION {{[text |-> t, blanks |-> n] :
               n \in {0, LENGTH_LIMIT - Len(t), LENGTH_LIMIT - Len(t) + 1}} :
           t \in ScreenTexts}

Tripped(texts) == [t \in texts |-> Trips(t)]
TripsOf == Tripped(ScreenTexts)

ScreenInit ==
    /\ Started
    /\ \E i \in ScreenInputs : input = Call("check_input", i)
    /\ output = Return(None, None)

Screen ==
    /\ input.fn = "check_input"
    /\ output.fn = None
    /\ \E result \in FirstTrip(TripsOf[input.arg.text], Len(input.arg.text) + input.arg.blanks) :
          output' = Return("check_input", result)
    /\ UNCHANGED <<session, last, browsers, conversation_history, client, input>>

ScreenNext == Screen

ScreenSpec == ScreenInit /\ [][ScreenNext]_vars

(***************************************************************************)
(* The classifier as a pure function: SmartGuide._analyze_query applied to *)
(* one query, which is drawn from ClassifyQueries when the call is made.   *)
(***************************************************************************)
ClassifyQueries ==
    {"plan a 2 day trip to galle", "plan a 3 hour trip to kandy", "2 day trip kandy",
     "5 hour trip to ella", "trip to galle for 2 days", "trip to 5 for 2 days",
     "trip galle for 3 hours", "trip to 1_0 for 1 hour", "2 hour trip to galle today",
     "plan a 1 day trip to gale", "plan a 2 day trip to", "Plan A 2 Day Trip To Galle",
     "10 day trip to kandi and eat", "3 day trip to to",
     "3 hour trip ella a day", "weather in kandy",
     "kandy weather", "temperature at jafna", "climate in galle", "weather for hotels",
     "restaurants in galle", "where to eat", "food near kandi", "hotels in ella",
     "stay at negambo", "hotel food in galle", "tell me about sigiriya", "what is ella",
     "kandy details", "about galle", "information about colombo", "places to visit in kandy",
     "things to do", "see jaffna", "how to reach ella", "transportation", "history of kandy",
     "ancient heritage", "history of temples in kandy", "best time to visit ella",
     "season in galle", "best beaches", "cost of ella", "cheap budget", "distance",
     "galle from colombo", "hatton", "bentota", "where is mirissa", "locate sigiriya rock",
     "location of ella", "where is  ", "recommend something", "suggest", "kandy vs galle",
     "compare", "difference", "beaches near galle", "beaches", "temples in kandy", "temples",
     "hiking in ella", "shopping", "jaffna", "jafna", "kandy", "colombo", "nuwara",
     "nuwara eliya", "sigiriya", "arugam bay", "trinco", "ella", "galle fort", "kandy 2",
     "columbo", "mirisa", "hello", "xyz", "", "thanks a lot my friend", "ok"}

\* the classifier's answer to each of the queries
Analyzed(queries) == [query \in queries |-> _analyze_query(query)]
AnalyzedAs == Analyzed(ClassifyQueries)

ClassifyInit ==
    /\ Started
    /\ \E query \in ClassifyQueries : input = Call("_analyze_query", query)
    /\ output = Return(None, None)

Classify ==
    /\ input.fn = "_analyze_query"
    /\ output.fn = None
    /\ output' = Return("_analyze_query", AnalyzedAs[input.arg])
    /\ UNCHANGED <<session, last, browsers, conversation_history, client, input>>

ClassifyNext == Classify

ClassifySpec == ClassifyInit /\ [][ClassifyNext]_vars

(***************************************************************************)
(* The text functions, each applied to one text                            *)
(***************************************************************************)

\* tokens handed to _fuzzy_correct_place: words of a lowercased query, as
\* _analyze_query cuts them out, and its default "sri lanka"
FuzzyTokens ==
    known_sri_lanka_places \cup
    {"kandi", "xyzzynotaplace", "jafna", "gale", "gal", "sigiri", "ela", "reach",
     "temples", "nuwara", "colmbo", "kand", "kan", "mata", "matra", "galla",
     "hatto", "bentot", "mirisa", "ampar", "manar", "elle", "el", "kady",
     "kandyan", "sri lanka", "lanka", "tea", "beach", "to", "5", "hotels",
     "fort", "negambo", "columbo", "candy", "anuradapura", "welig", "badul",
     "male", "ratna", "pura", "gampa", "gampo", "hapu", "putta", "vavu",
     "unawa", "hikka", "arugam", "kalpi", "polon", "eliya", "nuwara eliy",
     "jaff", "jaf", "nego", "galle fort", "mullai", "kilino", "monara", "maha",
     "kurungala", ""}

CorrectedOf(tokens) == [token \in tokens |-> _fuzzy_correct_place(token)]
CorrectedAs == CorrectedOf(FuzzyTokens)

\* texts handed to parse_minutes: with and without a duration, hours and
\* minutes on both sides of the two floors, halves that round() must settle
DurationTexts ==
    {"", "kandy", "two hours", "h", "2", "2 days", "in 2.h", "about 2 . 5",
     "2h", "2 h", "2hr", "2 hrs", "2 hour", "2 hours", "3 HOURS", "2H",
     "1.5 hours", "1.25 hr", "2.75h", "0.1h", "0.5h", "0.49h", "0.51 h",
     "0 hours", "0.525 hours", "0.875 hours", "1.125h", "10 h", "1.5.5h",
     "0m", "5 m", "14m", "15m", "16 mins", "29 minutes", "30 min", "90 min",
     "120 minutes", "150 MIN", "1 minute", "007 m", "1.5m",
     "2 hotels", "5 museums", "kandy tour 2h", "galle for 45 mins please",
     "10 minutes or 2 hours", "2 hours 30 minutes", "1 day 3 h", "room 12 for 1 hr"}

\* queries handed to _normalize_query: with canonical place names, with
\* misspelled ones and with none, as typed and already lowercased
NormalizeQueries ==
    {"", "hello", "sigiriya", "nuwara eliya", "galle", "kandy", "ella", "jaffna",
     "polonnaruwa", "anuradhapura", "trincomalee", "colombo", "negombo",
     "sigiri", "kandi", "candy", "gale", "nuwara", "columbo", "negambo",
     "anuradapura", "  Tell me about Sigiriya ", "tell me about sigiriya",
     "plan a trip to nuwara eliya", "fort in galle", "hotels in kandy",
     "weather in colombo", "best beaches in bentota", "how far is ella from kandy",
     "candy shop in kandy", "Kandi Lake", "kandi and gale", "mirissa whale watching",
     "dambulla cave temple", "sigiriyaya", "nuwara eliya eliya", "3 day trip to kandi"}

NormalizedOf(queries) == [query \in queries |-> _normalize_query(query)]
NormalizedAs == NormalizedOf(NormalizeQueries)

\* texts handed to check_input of simple_safety.py: every short form alone
\* and inside a sentence, as typed, and texts that hold none as a word
SHORT_FORM_KEYS == {SHORT_FORMS[n][1] : n \in 1..Len(SHORT_FORMS)}
ShortFormTexts ==
    SHORT_FORM_KEYS
    \cup {"is it " \o key \o " or not" : key \in SHORT_FORM_KEYS}
    \cup {"", "hello", "posture", "sobs", "afternoon", "WTF", "Smh, that was far",
          "MF kandy", "a bs story", "wtf?", "dm me the kandy plan", "omfg!",
          "kill the smh", "smh and mf", "wtf and bs", "weather in kandy"}

SimpleCheckedOf(texts) ==
    [text \in texts |-> {simple_check_input(text, ord) : ord \in IterationOrders(text)}]
SimpleCheckedAs == SimpleCheckedOf(ShortFormTexts)

ParsedOf(texts) == [text \in texts |-> parse_minutes(text)]
ParsedAs == ParsedOf(DurationTexts)

TextInit ==
    /\ Started
    /\ \/ \E token \in FuzzyTokens : input = Call("_fuzzy_correct_place", token)
       \/ \E text \in DurationTexts : input = Call("parse_minutes", text)
       \/ \E query \in NormalizeQueries : input = Call("_normalize_query", query)
       \/ \E text \in ShortFormTexts : input = Call("simple_check_input", text)
    /\ output = Return(None, None)

Correct ==
    /\ input.fn = "_fuzzy_correct_place"
    /\ output.fn = None
    /\ output' = Return("_fuzzy_correct_place", CorrectedAs[input.arg])
    /\ UNCHANGED <<session, last, browsers, conversation_history, client, input>>

ParseMinutes ==
    /\ input.fn = "parse_minutes"
    /\ output.fn = None
    /\ output' = Return("parse_minutes", ParsedAs[input.arg])
    /\ UNCHANGED <<session, last, browsers, conversation_history, client, input>>

Normalize ==
    /\ input.fn = "_normalize_query"
    /\ output.fn = None
    /\ output' = Return("_normalize_query", NormalizedAs[input.arg])
    /\ UNCHANGED <<session, last, browsers, conversation_history, client, input>>

SimpleCheck ==
    /\ input.fn = "simple_check_input"
    /\ output.fn = None
    /\ \E result \in SimpleCheckedAs[input.arg] :
          output' = Return("simple_check_input", result)
    /\ UNCHANGED <<session, last, browsers, conversation_history, client, input>>

TextNext == Correct \/ ParseMinutes \/ Normalize \/ SimpleCheck

TextSpec == TextInit /\ [][TextNext]_vars

(***************************************************************************)
(* The dialogue state of a session, and the turns a user can send          *)
(***************************************************************************)

\* session.get("pending"), session.get("slots", {}), session.get("last_place"),
\* session.get("last_itinerary_city")
Pending(s) == Get(s, "pending", None)
Slots(s) == Get(s, "slots", EmptyDict)
LastPlace(s) == Get(s, "last_place", None)
LastItineraryCity(s) == Get(s, "last_itinerary_city", None)

\* IDLE, AWAITING_CITY, AWAITING_DURATION
Idling(s) == Pending(s) \notin {"city", "minutes"}
AwaitsCity(s) == Pending(s) = "city"
AwaitsDuration(s) == Pending(s) = "minutes"

\* everything one POST /chat depends on besides the session: the message, what
\* check_input returns for it, what plan does, whether a failing request saves
TurnInputs ==
    UNION {{[raw |-> m, chk |-> c, o |-> o, saved |-> sv] :
               c \in Screened[m], o \in PlanOutcomes, sv \in BOOLEAN} : m \in Messages}
Turn(s, i) == chat(s, i.raw, i.chk, i.o, i.saved)

\* the turns that pass the safety filter, and those it rejects
Passing == {i \in TurnInputs : i.chk.ok}
Rejected == {i \in TurnInputs : ~i.chk.ok}

(***************************************************************************)
(* C1                                                                      *)
(***************************************************************************)

\* C1: in every reachable session state, pending = "minutes" only if the slots
\* hold a city.
C1_DurationAwaitedOnlyWithCity ==
    AwaitsDuration(session) => "city" \in DOMAIN Slots(session)

\* a turn has left the session waiting for the duration of a tour of a city
C1_Witness ==
    /\ last.op = "chat"
    /\ last.kind = "await_minutes"
    /\ AwaitsDuration(session)
    /\ "city" \in DOMAIN Slots(session)

(***************************************************************************)
(* C2                                                                      *)
(***************************************************************************)

C2_Step(s, i) ==
    LET r == Turn(s, i)
        mins == MinutesOf[Sanitized[i.raw]]
        city == Slots(s).city
    IN IF mins # NoneInt
       THEN /\ Pending(r.session) = None
            /\ Slots(r.session) = EmptyDict
            /\ r.out.intent = "itinerary"
            /\ r.out.planned = <<city, mins>>
            /\ r.out.status = 200
       ELSE /\ Pending(r.session) = Pending(s)
            /\ Slots(r.session) = Slots(s)
            /\ r.out.kind = "reprompt"
            /\ r.out.status = 200

\* C2: while the duration is awaited, a turn a duration parses from clears
\* pending and the slots and plans an itinerary for the remembered city with
\* that duration; a turn no duration parses from leaves pending and the slots
\* as they were and is answered (status 200) with the re-prompt.
C2_DurationTurn ==
    (require_auth(session) /\ AwaitsDuration(session))
        => \A i \in Passing : C2_Step(session, i)

\* "2 hours" has been answered with an itinerary and the machine is idle again
C2_Witness ==
    /\ last.op = "chat"
    /\ last.raw = "2 hours"
    /\ last.kind = "itinerary"
    /\ Pending(session) = None
    /\ Slots(session) = EmptyDict
    /\ LastItineraryCity(session) = "Kandy"

(***************************************************************************)
(* C3                                                                      *)
(***************************************************************************)

\* the turn i, sent while the city is awaited, stores city under slots.city,
\* moves on to awaiting the duration, and runs neither the classifier nor a
\* shortcut on the message
C3_Step(s, i, city) ==
    LET r == Turn(s, i)
    IN /\ Slots(r.session) = Put(Slots(s), "city", city)
       /\ AwaitsDuration(r.session)
       /\ ~r.out.classified
       /\ r.out.intent = None
       /\ r.out.kind = "await_minutes"
       /\ LastPlace(r.session) = LastPlace(s)
       /\ LastItineraryCity(r.session) = LastItineraryCity(s)

\* C3: while the city is awaited, every turn that passes the safety filter is
\* stored under slots.city in its sanitized form (angle brackets removed, runs
\* of whitespace collapsed, trimmed, cut to 2000 characters), the classifier
\* and the shortcuts are not run on it, and the duration is awaited next.
C3_CityTurnStoresSanitized ==
    (require_auth(session) /\ AwaitsCity(session))
        => \A i \in Passing : C3_Step(session, i, Sanitized[i.raw])

\* C3 as stated: the turn is stored under slots.city exactly as the user gave it
C3_CityTurnStoresAsGiven ==
    (require_auth(session) /\ AwaitsCity(session))
        => \A i \in Passing : C3_Step(session, i, i.raw)

\* "<3  kandy", sent while the city was awaited, has become the city "3 kandy"
C3_Witness ==
    /\ last.op = "chat"
    /\ last.raw = "<3  kandy"
    /\ last.kind = "await_minutes"
    /\ AwaitsDuration(session)
    /\ Slots(session) = [city |-> "3 kandy"]

(***************************************************************************)
(* C4                                                                      *)
(***************************************************************************)

\* the turn i, sent to the idle session s: when the classifier is run on it and
\* yields an itinerary intent, the city and the duration it found decide
C4_Step(s, i) ==
    LET r == Turn(s, i)
        p == RoutedAs[Sanitized[i.raw]].payload
        has_city == Truthy(p.city)
        has_minutes == p.minutes # NoneInt /\ p.minutes # 0
    IN (r.out.classified /\ r.out.intent = "itinerary")
       => /\ (has_city /\ ~has_minutes)
                => AwaitsDuration(r.session) /\ Slots(r.session) = [city |-> p.city]
          /\ (~has_city /\ ~has_minutes) => AwaitsCity(r.session)
          /\ (has_city /\ has_minutes)
                => /\ r.out.planned = <<p.city, p.minutes>>
                   /\ Idling(r.session)
                   /\ Pending(r.session) = Pending(s)
                   /\ Slots(r.session) = Slots(s)

Saying(raw) == {i \in Passing : i.raw = raw}

\* the dialogue i1, i2, i3 from the session s goes through awaiting the city,
\* awaiting the duration for "kandy", and idle with an itinerary of 120 minutes
C5_Steps(s, i1, i2, i3) ==
    LET r1 == Turn(s, i1)
        r2 == Turn(r1.session, i2)
        r3 == Turn(r2.session, i3)
    IN /\ AwaitsCity(r1.session)
       /\ AwaitsDuration(r2.session)
       /\ Slots(r2.session) = [city |-> "kandy"]
       /\ Idling(r3.session)
       /\ r3.out.intent = "itinerary"
       /\ r3.out.planned = <<"kandy", 120>>

\* C5: from IDLE, the dialogue "plan a tour", "kandy", "2 hours" awaits the city
\* after the first turn, awaits the duration with slots.city = "kandy" after
\* the second, and is idle after the third, which plans an itinerary for
\* kandy with 120 minutes.
C5_ThreeTurnDialogue ==
    (require_auth(session) /\ Idling(session))
        => \A i1 \in Saying("plan a tour"), i2 \in Saying("kandy"), i3 \in Saying("2 hours") :
              C5_Steps(session, i1, i2, i3)

(***************************************************************************)
(* C6                                                                      *)
(***************************************************************************)

\* the passing turns that are a short affirmation
Affirming == {i \in Passing : Strip(Lower(Sanitized[i.raw])) \in confirm_words}

\* the affirmation i, sent to the idle session s that remembers a place, is an
\* itinerary intent for that place, not classified, and awaits the duration
C6_Step(s, i) ==
    LET r == Turn(s, i)
    IN /\ r.out.intent = "itinerary"
       /\ ~r.out.classified
       /\ AwaitsDuration(r.session)
       /\ Slots(r.session) = [city |-> LastPlace(s)]
       /\ LastPlace(r.session) = LastPlace(s)

\* C6: in IDLE with last_place = P stored by a facts response, a short
\* affirmation is handled as an itinerary intent for the city P without the
\* classifier being run on it: the session awaits the duration with
\* slots.city = P.
C6_AffirmationShortcut ==
    (require_auth(session) /\ Idling(session) /\ Truthy(LastPlace(session)))
        => \A i \in Affirming : C6_Step(session, i)

\* "yes" after facts about Kandy awaits the duration of a tour of Kandy
C6_Witness ==
    /\ last.op = "chat"
    /\ last.raw = "yes"
    /\ last.kind = "await_minutes"
    /\ LastPlace(session) = "Kandy"
    /\ AwaitsDuration(session)
    /\ Slots(session) = [city |-> "Kandy"]

(***************************************************************************)
(* C7                                                                      *)
(***************************************************************************)

\* the last request was a new-chat or a history-clear that was carried out
ResetDone == last.op \in {"new_chat", "clear_history"} /\ last.status \in {200, 204}

\* C7: after a new-chat or a history-clear, whatever the dialogue state was,
\* the session is idle (no pending slot) and the slots are empty.
C7_ResetIdlesAndEmpties ==
    ResetDone => Pending(session) = None /\ Slots(session) = EmptyDict

(***************************************************************************)
(* C8                                                                      *)
(***************************************************************************)

\* a session that has logged in and sent nothing yet
FreshSession == login_submit(EmptyDict, TRUE).session

\* what a turn shows of the dialogue: the intent, whether the classifier ran,
\* what was dispatched, and the dialogue state the turn leaves
Observed(r) ==
    [status |-> r.out.status, kind |-> r.out.kind, intent |-> r.out.intent,
     classified |-> r.out.classified, planned |-> r.out.planned,
     pending |-> Pending(r.session), slots |-> Slots(r.session)]

\* the turns of a sequence run one after the other from the session s
RECURSIVE Replay(_, _)
Replay(s, turns) ==
    IF turns = <<>> THEN <<>>
    ELSE <<Observed(Turn(s, Head(turns)))>>
             \o Replay(Turn(s, Head(turns)).session, Tail(turns))

\* the sequences of one and of two turns
TurnSeqs == {<<i>> : i \in TurnInputs} \cup {<<i, j>> : i \in TurnInputs, j \in TurnInputs}

\* C8: after a reset (new-chat or history-clear), replaying a sequence of turns
\* yields the same intents, state transitions and dispatches as the same
\* sequence on a fresh session: pending, slots, last_place and
\* last_itinerary_city stored before the reset influence no turn after it.
C8_ReplayAfterReset ==
    ResetDone => \A turns \in TurnSeqs : Replay(session, turns) = Replay(FreshSession, turns)

(***************************************************************************)
(* C9                                                                      *)
(***************************************************************************)

\* the turn i is taken by the session s: it is answered with status 200
Accepted(s, i) == Turn(s, i).out.status = 200

\* some sequence of one or two passing turns, each of them accepted, leaves
\* the session s idle
CanReturnToIdle(s) ==
    \E i \in Passing :
        /\ Accepted(s, i)
        /\ \/ Idling(Turn(s, i).session)
           \/ \E j \in Passing : /\ Accepted(Turn(s, i).session, j)
                                 /\ Idling(Turn(Turn(s, i).session, j).session)

\* C9: no state of the dialogue machine is terminal: in every reachable state
\* of a logged-in session a further turn is accepted (while a slot is awaited,
\* every passing turn is), and some sequence of turns returns the session to
\* IDLE.
C9_NoTerminalState ==
    require_auth(session)
        => /\ \E i \in Passing : Accepted(session, i)
           /\ ~Idling(session) => \A i \in Passing : Accepted(session, i)
           /\ CanReturnToIdle(session)

\* a duration given while it was awaited has brought the session back to idle
\* although nothing could be planned
C9_Witness ==
    /\ last.op = "chat"
    /\ last.raw = "2 hours"
    /\ last.kind = "plan_failed"
    /\ last.status = 200
    /\ Idling(session)

(***************************************************************************)
(* C10                                                                     *)
(***************************************************************************)

\* the rejected turn i, sent to POST /chat of the session s, is answered with
\* the redirect of the category check_input returned, without the classifier
\* and without a change of the session
C10_ChatStep(s, i) ==
    LET r == Turn(s, i)
    IN /\ r.out.status = 200
       /\ r.out.kind = "violation"
       /\ r.out.reply = get_violation_response(i.chk.reason)
       /\ ~r.out.classified
       /\ r.out.intent = None
       /\ r.session = s

\* the part of C10 about POST /chat
C10_ChatRejection ==
    require_auth(session) => \A i \in Rejected : C10_ChatStep(session, i)

\* the query q, when the guide's safety check rejects it, is answered with the
\* redirect of the category the check returned
C10_GuideStep(q, ord) ==
    ~simple_check_input(q, ord).ok
        => /\ process_query(q, ord).type = "safety_violation"
           /\ process_query(q, ord).text = simple_ResponseFor(simple_check_input(q, ord).reason)

\* C10: a turn the safety filter rejects is answered with the redirect message
\* of its category and goes to neither the classifier nor the dialogue state
\* machine: pending, slots, last_place and last_itinerary_city stay as they
\* are and no error is raised; so it is for POST /chat and for the guide's
\* process_query.
C10_RejectedTurn ==
    /\ C10_ChatRejection
    /\ last.op = "process_query"
           => \A ord \in IterationOrders(last.raw) : C10_GuideStep(last.raw, ord)

(***************************************************************************)
(* Sessions of src/app.py and the guide they share                         *)
(***************************************************************************)
\* the turns of browser y in the guide's log
LoggedBy(log, y) == SelectSeq(log, LAMBDA e : e.by = y)

\* the request served in this step was none of y's, and it left y's session
\* cookie and y's turns in the guide's log as they were
C11_Step(y) ==
    client' # y
        => /\ browsers'[y] = browsers[y]
           /\ LoggedBy(conversation_history', y) = LoggedBy(conversation_history, y)

\* C11: turn logs are per session: however the requests of two sessions
\* interleave, no chat turn, history clear or new chat of one session changes
\* the history or the logged turns of the other, the turns the process-wide
\* guide holds included.
C11_SessionsIsolated == [][\A y \in Browsers : C11_Step(y)]_vars

\* the ids of the entries of a turn log
IdsOf(log) == {log[k].id : k \in 1..Len(log)}
\* the entries of log whose id is one of ids, in the order of log
Keeping(log, ids) == SelectSeq(log, LAMBDA e : e.id \in ids)

\* from log before to log after, entries were only deleted or appended at the
\* end: the entries that stay are the same records in the same order, and
\* every new entry stands after all of them
OnlyAppendedOrDeleted(before, after) ==
    LET kept == Keeping(before, IdsOf(after))
    IN /\ Keeping(after, IdsOf(before)) = kept
       /\ SubSeq(after, 1, Len(kept)) = kept

\* C12: over any sequence of chat, new-chat, clear-history and delete-message
\* requests, the turn log of a session changes only by entries appended at its
\* end or by entries deleted: an entry that stays is never modified and the
\* entries that stay keep their order.
C12_LogAppendsOrDeletes ==
    [][/\ \A x \in Browsers :
             OnlyAppendedOrDeleted(Get(browsers[x], "history", <<>>),
                                   Get(browsers'[x], "history", <<>>))
       /\ OnlyAppendedOrDeleted(Get(session, "history", <<>>),
                                Get(session', "history", <<>>))]_vars

\* a message between two others was deleted, and both are still there
C12_Witness ==
    /\ last.op = "delete_message"
    /\ \E x \in Browsers :
          Get(browsers[x], "history", <<>>) = <<WelcomeTurn(1), WelcomeTurn(3)>>

(***************************************************************************)
(* C13                                                                     *)
(***************************************************************************)
\* the places lookup_place finds for some text of a turn
PlacesFound == {PlaceOf[t] : t \in DOMAIN PlaceOf} \ {None}

\* the turn i in the session s changes last_place only when it answers with
\* the facts of a place found, which it stores, and changes
\* last_itinerary_city only when it answers with an itinerary
C13_Step(s, i) ==
    LET r == Turn(s, i)
    IN /\ LastPlace(r.session) # LastPlace(s)
            => /\ r.out.kind = "facts"
               /\ LastPlace(r.session) \in PlacesFound
       /\ LastItineraryCity(r.session) # LastItineraryCity(s)
            => /\ r.out.kind = "itinerary"
               /\ r.out.planned # <<>>

\* C13: last_place changes only on a turn whose facts lookup succeeded, and
\* then to the place found; last_itinerary_city changes only on a turn that
\* produced an itinerary; every other turn (failed lookup, failed plan,
\* re-prompt, help, chitchat, blocked input) leaves both as they were.
C13_LastPlaceAndCityFrame == \A i \in TurnInputs : C13_Step(session, i)

\* a facts turn has stored the place it found, after an itinerary for a city
C13_Witness ==
    /\ last.op = "chat"
    /\ last.raw = "kandy"
    /\ last.kind = "facts"
    /\ LastPlace(session) = "Kandy"
    /\ LastItineraryCity(session) = "Kandy"

(***************************************************************************)
(* C14, C15, C16: the input screen of src/agents/safety_agent.py           *)
(***************************************************************************)
\* a call of check_input has returned
ScreenDone == input.fn = "check_input" /\ output.fn = "check_input"
ScreenedText == input.arg.text
ScreenedLength == Len(input.arg.text) + input.arg.blanks

\* the rules, in the order the code tries them and in the order with the
\* profanity dictionary last
RULES_AS_CODED ==
    <<"banned", "profanity", "raw_html_tag", "script", "sql", "spam", "excessive_length">>
RULES_DICTIONARY_LAST ==
    <<"banned", "raw_html_tag", "script", "sql", "spam", "excessive_length", "profanity">>

\* whether a text with the trips and the length given trips the rule
TripsRule(rule, trips, length) ==
    CASE rule = "banned" -> trips.banned # {}
      [] rule = "excessive_length" -> length > LENGTH_LIMIT
      [] OTHER -> trips[rule]

\* the categories the rule answers with
CategoriesOf(rule, trips) ==
    CASE rule = "banned" -> trips.banned
      [] rule = "sql" -> {"sql injection"}
      [] OTHER -> {rule}

RulesTripped(order, trips, length) ==
    {k \in 1..Len(order) : TripsRule(order[k], trips, length)}

\* the result is a rejection with a category of the first rule of order that
\* the text trips, whenever it trips more than one
FirstOf(order, trips, length, result) ==
    LET tripped == RulesTripped(order, trips, length)
    IN Cardinality(tripped) > 1
          => /\ ~result.ok
             /\ result.reason \in CategoriesOf(order[MinOf(tripped)], trips)

\* C14 (as the code has it): when an input trips more than one rule of the
\* input screen, the category returned is that of the first tripped rule in
\* the order: banned-term and variant lookup, profanity dictionary, raw HTML
\* tag, inline JS, SQL-injection shape, word repetition, length.
C14_FirstRuleInCodeOrder ==
    ScreenDone =>
        FirstOf(RULES_AS_CODED, TripsOf[ScreenedText], ScreenedLength, output.value)

\* C14 (as stated): the same, with the order banned-term and variant lookup,
\* raw HTML tag, inline JS, SQL-injection shape, word repetition, length, and
\* the profanity dictionary last of all.
C14_FirstRuleDictionaryLast ==
    ScreenDone =>
        FirstOf(RULES_DICTIONARY_LAST, TripsOf[ScreenedText], ScreenedLength, output.value)

\* a text with a dictionary word and a raw tag was rejected as profanity
C14_Witness ==
    /\ ScreenDone
    /\ ScreenedText = "arse <b>"
    /\ output.value = Checked(FALSE, "profanity")

\* the banned keywords the text holds and the keys of the variants it holds,
\* whatever the case of its letters
TermsIn(text) ==
    {bad \in sa_BANNED_SUBSTRINGS : Contains(Lower(text), bad)}
        \cup {variations[k][1] : k \in VariationKeysIn(Lower(text))}

\* C15: for every input that contains a banned keyword or one of its
\* registered variants as a substring, in any case of letters, the input
\* screen returns allowed = false with the category of a banned term the
\* input contains (the base keyword when a variant matched).
C15_BannedTermRejected ==
    (ScreenDone /\ TermsIn(ScreenedText) # {})
        => /\ ~output.value.ok
           /\ output.value.reason \in TermsIn(ScreenedText)

\* a variant in capitals was rejected with the category of its base keyword
C15_Witness ==
    /\ ScreenDone
    /\ ScreenedText = "K*LL"
    /\ output.value = Checked(FALSE, "kill")

\* the text has no banned term or variant, no word more than 5 times and at
\* most 5000 characters
C16_Plain ==
    /\ TermsIn(ScreenedText) = {}
    /\ max_repetition(ScreenedText) <= REPETITION_LIMIT
    /\ ScreenedLength <= LENGTH_LIMIT

\* the text has no word of the profanity dictionary, no raw HTML tag and
\* nothing of the shape of inline JS or of an SQL injection
C16_NoPattern ==
    LET trips == TripsOf[ScreenedText]
    IN ~trips.profanity /\ ~trips.raw_html_tag /\ ~trips.script /\ ~trips.sql

\* C16 (as the code has it): an input with no banned term or variant, no word
\* of the profanity dictionary, no raw HTML tag, no inline-JS or SQL-injection
\* shape, no word repeated more than 5 times and at most 5000 characters is
\* allowed, with an empty category.
C16_CleanInputAllowed ==
    (ScreenDone /\ C16_Plain /\ C16_NoPattern) => output.value = Checked(TRUE, "")

\* C16 (as stated): an input with no banned term or variant, no word repeated
\* more than 5 times and at most 5000 characters is allowed, with an empty
\* category.
C16_PlainInputAllowed ==
    (ScreenDone /\ C16_Plain) => output.value = Checked(TRUE, "")

\* a clean text of exactly 5000 characters was allowed
C16_Witness ==
    /\ ScreenDone
    /\ ScreenedText = "beach"
    /\ ScreenedLength = LENGTH_LIMIT
    /\ output.value = Checked(TRUE, "")

(***************************************************************************)
(* The classifier's groups and the group that answers                      *)
(***************************************************************************)
ClassifyDone == input.fn = "_analyze_query" /\ output.fn = "_analyze_query"
\* the query as the groups see it
ClassifiedQuery == _normalize_query(input.arg)

\* the order of the groups: trip duration, weather, restaurants, hotels,
\* facts, attractions, transportation, history, best-time, cost, distance,
\* where-is lookup, recommendations, comparison, beaches, temples,
\* activities, bare place name, general
ORDER_OF_GROUPS ==
    <<"trip_planning", "weather", "restaurants", "hotels", "place_info", "attractions",
      "transportation", "history", "best_time", "cost", "distance", "location_lookup",
      "recommendations", "comparison", "beaches_list", "temples_list", "activities",
      "bare_place", "general">>
\* the intent a group returns: the bare place name answers as attractions
IntentOf(group) == IF group = "bare_place" THEN "attractions" ELSE group
MatchingGroups(order, query) == {k \in 1..Len(order) : GroupMatches(order[k], query)}

C18_NeverRaises ==
    ClassifyDone =>
        /\ ~output.value.raised
        /\ MatchingGroups(ORDER_OF_GROUPS, ClassifiedQuery) = {Len(ORDER_OF_GROUPS)} =>
              output.value = Classified("general", [query |-> input.arg])

\* the fifth trip pattern has the place as group 1, and int() of it raises
C18_Raised ==
    /\ ClassifyDone
    /\ input.arg = "trip to galle for 2 days"
    /\ FirstMatching(trip_patterns, ClassifiedQuery) = 5
    /\ output.value = ValueError

(***************************************************************************)
(* The trip group: "N day trip [to] P"                                     *)
(***************************************************************************)
\* "plan a N day trip [to] P" and "N day trip [to] P" among trip_patterns
DAY_TRIP_PATTERNS == {2, 4}
\* the matches <<N, P>> of the queries whose first matching trip pattern is
\* one of these: none or one for a query
DayTrips(query) ==
    {match.groups : match \in {re_search(trip_patterns[n], query) :
                                   n \in {FirstMatching(trip_patterns, query)} \cap DAY_TRIP_PATTERNS}}
DayTripsClassified == {trip : trip \in UNION {DayTrips(query) : query \in {ClassifiedQuery}}}

OnlyWords(query) ==
    \A i \in 0..(Len(query) - 1) : IsLetter(At(query, i)) \/ IsSpace(At(query, i))
BarePlaceQuery(query) ==
    /\ OnlyWords(query)
    /\ Len(Split(query)) \in {1, 2}
    /\ Lower(_fuzzy_correct_place(query)) \in known_sri_lanka_places

\* C20: for every query that after normalization consists of only one or
\* two word tokens and fuzzy-resolves to a known place, the classifier
\* returns the intent "attractions" with city = the corrected place name.
C20_BarePlaceGivesAttractions ==
    ClassifyDone =>
        \A query \in {ClassifiedQuery} :
            BarePlaceQuery(query) =>
                output.value = Classified("attractions", [city |-> _fuzzy_correct_place(query)])

\* "hatton" is a known place, and "to" in it makes the distance group answer
C20_PlaceAsDistance ==
    /\ ClassifyDone
    /\ input.arg = "hatton"
    /\ BarePlaceQuery(ClassifiedQuery)
    /\ output.value = Classified("distance", [query |-> "hatton"])

\* "jafna" is answered with the attractions of "jaffna"
C20_PlaceAsAttractions ==
    /\ ClassifyDone
    /\ input.arg = "jafna"
    /\ BarePlaceQuery(ClassifiedQuery)
    /\ output.value = Classified("attractions", [city |-> "jaffna"])

(***************************************************************************)
(* The places in the classifier's slots                                    *)
(***************************************************************************)
\* the slots that name a place
PLACE_SLOTS == {"place", "city"}
\* slots say that a place is unresolved by carrying a key "unresolved"; no
\* return statement of _analyze_query builds such a key
TaggedUnresolved(slots) == "unresolved" \in DOMAIN slots

\* C21: for every query and every intent, each place or city in the slots
\* the classifier returns is a name of known_sri_lanka_places, or the slots
\* are tagged as unresolved.
C21_PlacesKnownOrTagged ==
    (ClassifyDone /\ ~output.value.raised) =>
        \A key \in PLACE_SLOTS \cap DOMAIN output.value.slots :
            \/ output.value.slots[key] \in known_sri_lanka_places
            \/ TaggedUnresolved(output.value.slots)

\* "how to reach ella" is answered with the place "reach", untagged
C21_UnknownPlaceUntagged ==
    /\ ClassifyDone
    /\ input.arg = "how to reach ella"
    /\ output.value = Classified("transportation", [place |-> "reach"])
    /\ "reach" \notin known_sri_lanka_places

(***************************************************************************)
(* Place correction                                                        *)
(***************************************************************************)
CorrectDone == input.fn = "_fuzzy_correct_place" /\ output.fn = "_fuzzy_correct_place"
\* a similarity <<2M, T>> of at least 0.75
AtLeastThreeQuarters(r) == 4 * r[1] >= 3 * r[2]
CloseTo(token) == {place \in known_sri_lanka_places : AtLeastThreeQuarters(Ratio(place, token))}
NoCloser(best, token, places) ==
    \A place \in places :
        Ratio(place, token)[1] * Ratio(best, token)[2] <= Ratio(best, token)[1] * Ratio(place, token)[2]

\* C22: place correction returns a known place as it is, a token with a
\* known place of similarity at least 0.75 as the most similar such place,
\* and every other token unchanged.
C22_PlaceCorrection ==
    CorrectDone =>
        IF input.arg \in known_sri_lanka_places THEN output.value = input.arg
        ELSE IF CloseTo(input.arg) # {}
        THEN /\ output.value \in CloseTo(input.arg)
             /\ NoCloser(output.value, input.arg, CloseTo(input.arg))
        ELSE output.value = input.arg
\* "kandi" has become "kandy", a known place is kept and a far token too
C22_Witness ==
    /\ CorrectDone
    /\ input.arg = "kandi"
    /\ output.value = "kandy"
    /\ CorrectedAs["galle"] = "galle"
    /\ CloseTo("xyzzynotaplace") = {}
    /\ CorrectedAs["xyzzynotaplace"] = "xyzzynotaplace"

(***************************************************************************)
(* Duration parsing                                                        *)
(***************************************************************************)
ParseDone == input.fn = "parse_minutes" /\ output.fn = "parse_minutes"
\* the positions of the lowercased text where TIME_PAT matches, as hours and
\* as minutes; search() stops at the leftmost one and tries hours first
HoursAt(text) == {i \in 0..(Len(text) - 1) : HoursMatchAt(Lower(text), i)}
MinutesAt(text) == {i \in 0..(Len(text) - 1) : MinutesMatchAt(Lower(text), i)}
Leftmost(text) == MinOf(HoursAt(text) \cup MinutesAt(text))
GivenInHours(text) == HoursAt(text) # {} /\ Leftmost(text) \in HoursAt(text)
\* the number of the expression at position i: the hours times 60, rounded,
\* and the minutes
HoursTimes60(text, i) == HoursToMinutes(Slice(Lower(text), i, HoursEnd(Lower(text), i)))
MinutesNumber(text, i) == ToInt(Slice(Lower(text), i, DigitsEnd(Lower(text), i)))
FLOOR_HOURS == 30
FLOOR_MINUTES == 15

\* C25: parse_minutes returns no value for a text without a duration
\* expression, max(30, round(hours * 60)) for an hours expression and
\* max(15, minutes) for a minutes expression; so a duration it returns is at
\* least 15, and at least 30 when given in hours.
C25_ParsedDuration ==
    ParseDone =>
        /\ IF HoursAt(input.arg) \cup MinutesAt(input.arg) = {}
           THEN output.value = NoneInt
           ELSE IF GivenInHours(input.arg)
           THEN /\ output.value >= HoursTimes60(input.arg, Leftmost(input.arg))
                /\ output.value >= FLOOR_HOURS
                /\ output.value \in {FLOOR_HOURS, HoursTimes60(input.arg, Leftmost(input.arg))}
           ELSE /\ output.value >= MinutesNumber(input.arg, Leftmost(input.arg))
                /\ output.value >= FLOOR_MINUTES
                /\ output.value \in {FLOOR_MINUTES, MinutesNumber(input.arg, Leftmost(input.arg))}
        /\ output.value # NoneInt => output.value \in Nat /\ output.value >= FLOOR_MINUTES
\* "0.1h" is lifted to 30 and "5 m" to 15, "1.5 hours" is 90 and "kandy"
\* holds no duration
C25_Witness ==
    /\ ParseDone
    /\ input.arg = "0.1h"
    /\ output.value = 30
    /\ ParsedAs["5 m"] = 15
    /\ ParsedAs["1.5 hours"] = 90
    /\ ParsedAs["150 MIN"] = 150
    /\ ParsedAs["kandy"] = NoneInt

(***************************************************************************)
(* Query normalization                                                     *)
(***************************************************************************)
NormalizeDone == input.fn = "_normalize_query" /\ output.fn = "_normalize_query"
\* the names spelling_corrections corrects to, and the spellings it corrects
CANONICAL_NAMES == {spelling_corrections[k][2] : k \in 1..Len(spelling_corrections)}
WRONG_SPELLINGS ==
    {spelling_corrections[k][1] :
        k \in {k \in 1..Len(spelling_corrections) :
                   spelling_corrections[k][1] # spelling_corrections[k][2]}}
\* the query with every canonical name (the k-th and later) struck out
RECURSIVE StruckOut(_, _)
StruckOut(query, k) ==
    IF k > Len(spelling_corrections) THEN query
    ELSE IF Contains(query, spelling_corrections[k][2])
    THEN StruckOut(Replace(query, spelling_corrections[k][2], "#"), k + 1)
    ELSE StruckOut(query, k + 1)
\* a lowercased, trimmed query that holds a misspelling nowhere outside its
\* canonical names
Canonical(query) ==
    /\ query = Strip(Lower(query))
    /\ \A wrong \in WRONG_SPELLINGS : ~Contains(StruckOut(query, 1), wrong)

\* C30: normalization returns a lowercased, trimmed query with canonical
\* place names unchanged, and returns its own result unchanged.
C30_NormalizedIsFixed ==
    NormalizeDone =>
        /\ Canonical(input.arg) => output.value = input.arg
        /\ _normalize_query(output.value) = output.value
\* the canonical "sigiriya" comes back as "sigiriyaya", and that as
\* "sigiriyayaya"
C30_CanonicalChanged ==
    /\ NormalizeDone
    /\ input.arg = "sigiriya"
    /\ Canonical(input.arg)
    /\ output.value = "sigiriyaya"
    /\ _normalize_query(output.value) = "sigiriyayaya"

(***************************************************************************)
(* The short forms of the simple input check                               *)
(***************************************************************************)
SimpleCheckDone == input.fn = "simple_check_input" /\ output.fn = "simple_check_input"
\* the short forms that occur as whole words in the lowercased text
ShortFormsIn(text) == {key \in SHORT_FORM_KEYS : HasWord(Strip(Lower(text)), key)}

\* C29: an input that holds a registered short form as a whole word is not
\* allowed by the simple input check.
C29_ShortFormsBlocked ==
    (SimpleCheckDone /\ ShortFormsIn(input.arg) # {}) => ~output.value.ok
\* "smh" is expanded to "shaking my head" and allowed
C29_ShortFormAllowed ==
    /\ SimpleCheckDone
    /\ input.arg = "smh"
    /\ ShortFormsIn(input.arg) = {"smh"}
    /\ _expand_short_forms(input.arg) = "shaking my head"
    /\ output.value = Checked(TRUE, "")

(***************************************************************************)
(* Trips given in hours                                                    *)
(***************************************************************************)
\* the trip patterns "[plan a] N hour trip [to] P"
HOUR_TRIP_PATTERNS == {1, 3}
HourTrips(query) ==
    {match.groups : match \in {re_search(trip_patterns[n], query) :
                                   n \in {FirstMatching(trip_patterns, query)} \cap HOUR_TRIP_PATTERNS}}
HourTripsClassified == {trip : trip \in UNION {HourTrips(query) : query \in {ClassifiedQuery}}}

\* C26: for every query whose first matching trip pattern is "N hour trip
\* [to] P", the duration returned is N, whatever else the query holds.
C26_HourTripUnscaled ==
    ClassifyDone =>
        \A trip \in HourTripsClassified :
            /\ ~output.value.raised
            /\ output.value.slots.duration = IntOf(trip[1])
\* "2 hour trip to galle today" gives 48 hours: "today" holds "day"
C26_HourTripScaled ==
    /\ ClassifyDone
    /\ input.arg = "2 hour trip to galle today"
    /\ HourTripsClassified = {<<"2", "galle">>}
    /\ output.value = Classified("trip_planning", [duration |-> 48, city |-> "galle"])

(***************************************************************************)
(* The input screen and the order of the banned-term table                *)
(***************************************************************************)
\* what check_input can return for the text of the call, over the orders in
\* which the set BANNED_SUBSTRINGS can be iterated
ScreenResults == FirstTrip(TripsOf[input.arg.text], Len(input.arg.text) + input.arg.blanks)

\* C28: for a given text the input screen returns the same (allowed,
\* category) pair in whatever order the banned-term table is iterated.
C28_SameResultInEveryOrder ==
    ScreenDone => \A result \in ScreenResults : result = output.value
\* "kill Bomb" is rejected as "bomb" where another order rejects it as "kill"
C28_CategoryByOrder ==
    /\ ScreenDone
    /\ input.arg.text = "kill Bomb"
    /\ output.value = Checked(FALSE, "bomb")
    /\ Checked(FALSE, "kill") \in ScreenResults

(***************************************************************************)
(* The slice a deleted message takes with it                               *)
(***************************************************************************)
\* the entries lo..hi are the chat session around the entry at target: lo is
\* the nearest session start at or before it, or the first entry, and hi + 1
\* the next session start after it, or hi is the last entry
SessionAround(history, target, lo, hi) ==
    /\ lo <= target /\ target <= hi
    /\ lo = 1 \/ is_session_start(history[lo])
    /\ \A i \in (lo + 1)..target : ~is_session_start(history[i])
    /\ hi = Len(history) \/ is_session_start(history[hi + 1])
    /\ \A i \in (target + 1)..hi : ~is_session_start(history[i])
\* after is history without one slice lo..hi
WithoutSlice(history, after, lo, hi) ==
    after = SubSeq(history, 1, lo - 1) \o SubSeq(history, hi + 1, Len(history))
\* what deleting message_id makes of history
SliceDeleted(history, after, message_id) ==
    IF \A i \in 1..Len(history) : history[i].id # message_id THEN after = history
    ELSE \E lo, hi \in 1..Len(history) :
            /\ \E target \in lo..hi :
                  /\ history[target].id = message_id
                  /\ SessionAround(history, target, lo, hi)
            /\ WithoutSlice(history, after, lo, hi)
DeletedFrom(s, log, message_id) ==
    SliceDeleted(Get(s, "history", <<>>),
                 Get(app_delete_message(s, log, message_id).session, "history", <<>>),
                 message_id)

\* C27: deleting a message by id leaves the history unchanged when no entry
\* has the id; otherwise it removes one contiguous slice that holds the
\* entry, from the nearest session start at or before it (or the first
\* entry) up to the entry before the next session start (or the last
\* entry), and keeps every other entry, unchanged and in order.
C27_DeletesTheSessionSlice ==
    \A x \in Browsers : \A message_id \in MessageIds :
        require_auth(browsers[x]) => DeletedFrom(browsers[x], conversation_history, message_id)
\* a delete request has left a browser with the welcome that followed a
\* turn: the turn, which no session start preceded, went with its user entry
C27_Witness ==
    /\ last.op = "delete_message"
    /\ require_auth(browsers[client])
    /\ Get(browsers[client], "history", <<>>) = <<WelcomeTurn(2)>>
    /\ SliceDeleted(<<UserTurn(1), BotTurn(1, "response", FALSE), WelcomeTurn(2)>>,
                    Get(browsers[client], "history", <<>>), <<1, "">>)
    /\ DeletedFrom(Put(browsers[client], "history",
                       <<UserTurn(1), BotTurn(1, "response", FALSE), WelcomeTurn(2)>>),
                   conversation_history, <<1, "">>)

(***************************************************************************)
(* Every screened turn is answered                                         *)
(***************************************************************************)
\* the turn just served was a chat turn of a logged-in user whose message
\* passed check_input
ScreenedTurn(l) == l.op = "chat" /\ l.kind \notin {"login", "violation"}
\* after is before with one user entry and one bot entry that replies to it
OneExchangeAppended(before, after) ==
    /\ Len(after) = Len(before) + 2
    /\ SubSeq(after, 1, Len(before)) = before
    /\ after[Len(before) + 1].who = "user"
    /\ after[Len(before) + 2].who = "bot"
    /\ after[Len(before) + 2].reply_to = after[Len(before) + 1].id

\* C23: every chat turn that passes the input check, in every dialogue state
\* and with every stored last_place and last_itinerary_city, is answered
\* with a reply (status 200) and appends to the history one user entry and
\* then one bot entry whose reply_to is the id of the user entry.
C23_EveryTurnIsAnswered ==
    [][ScreenedTurn(last') =>
           /\ last'.status = 200
           /\ OneExchangeAppended(Get(session, "history", <<>>),
                                  Get(session', "history", <<>>))]_vars
\* "ticket info" after an itinerary for a city the gazetteer does not have:
\* the turn ends in a 500, with the user entry and no bot entry when the
\* session was saved
C23_TicketInfoRaises ==
    /\ last.op = "chat"
    /\ last.raw = "ticket info"
    /\ last.status = 500
    /\ Truthy(LastItineraryCity(session))
    /\ PlaceOf[LastItineraryCity(session)] = None

(***************************************************************************)
(* The slots that go with each pending state                               *)
(***************************************************************************)
PENDING_STATES == {None, "city", "minutes"}

\* C24: between requests pending is none, "city" or "minutes"; the stored
\* slots are empty while pending is none or "city" and hold the key city and
\* no other while pending is "minutes"; no slot "minutes" is stored, and
\* GET /state reports minutes as absent.
C24_SlotsFollowPending ==
    /\ Pending(session) \in PENDING_STATES
    /\ Pending(session) \in {None, "city"} => Slots(session) = EmptyDict
    /\ Pending(session) = "minutes" => DOMAIN Slots(session) = {"city"}
    /\ "minutes" \notin DOMAIN Slots(session)
    /\ require_auth(session) => state(session).out.reply.minutes = None
\* a turn with a duration and no city has asked for the city, and nothing of
\* the duration is stored
C24_Witness ==
    /\ last.op = "chat"
    /\ last.raw = "please plan me a 2 hour tour"
    /\ MinutesOf[Sanitized[last.raw]] = 120
    /\ last.kind = "await_city"
    /\ Pending(session) = "city"
    /\ Slots(session) = EmptyDict
    /\ state(session).out.reply = [city |-> None, minutes |-> None]

====
